---------------------------- MODULE Spec2Model ----------------------------
(***************************************************************************)
(* A model of the PySOAR playbook engine (src/src/core/playbook_engine.py) *)
(* and of the collaborators it calls.  Python strings are TLA+ strings,    *)
(* scanned character by character with Head / Tail / SubSeq; a Python      *)
(* value is a record tagged with its type.  Timestamps and the wall-clock  *)
(* duration of a run are left out: no modelled operation reads them.       *)
(***************************************************************************)
EXTENDS Integers, Sequences, FiniteSets, TLC

VARIABLES
    integration_manager,  \* PlaybookEngine.integration_manager
    context,              \* PlaybookEngine.context
    execution_log,        \* PlaybookEngine.execution_log
    pc,                   \* where the call of execute stands
    playbook,             \* the playbook argument of the running call
    stack,                \* the pending for-loops of execute/_action_condition
    current,              \* the action _execute_action has announced
    exc,                  \* the exception in flight, or NoExc
    report,               \* the dictionary execute returned, or NoReport
    executed,             \* history: ids of the actions _execute_action was called on
    gateway_calls,        \* history: the calls the integration manager received
    before,               \* history: context and log when _execute_action was entered
    evaluated,            \* history: <<id, value>> for each condition eval returned for
    returned,             \* history: per report execute returned, what it was and the objects it holds
    retired,              \* the context and log objects the engine no longer holds, as they are now
    pieces,               \* resolver check: the literals and tokens the template is written from
    text,                 \* resolver check: the template handed to _resolve_variables
    resolved,             \* resolver check: what _resolve_variables returned
    held,                 \* the Case objects the caller of the CaseManager holds
    db,                   \* the rows of the table cases, in insertion order
    last,                 \* history: the last call on a Case or the CaseManager
    clock,                \* what datetime.now() returns
    uuids                 \* how many values uuid.uuid4() has drawn

vars == <<integration_manager, context, execution_log, pc, playbook, stack,
          current, exc, report, executed, gateway_calls, before, evaluated,
          returned, retired, pieces, text, resolved, held, db, last, clock, uuids>>

-----------------------------------------------------------------------------
(* Python values *)

\* t is the type; b, n, s hold a bool, an int, a str; items holds a dict's
\* <<key, value>> pairs in insertion order (string keys), a list's elements
\* as <<"", element>>, and an object's attributes; code holds a code body
PyVal(t, b, n, s, items, code) ==
    [t |-> t, b |-> b, n |-> n, s |-> s, items |-> items, code |-> code]

PyNone == PyVal("none", FALSE, 0, "", <<>>, <<>>)
PyInt(n) == PyVal("int", FALSE, n, "", <<>>, <<>>)
PyBool(b) == PyVal("bool", b, 0, "", <<>>, <<>>)
PyStr(s) == PyVal("str", FALSE, 0, s, <<>>, <<>>)
PyDict(items) == PyVal("dict", FALSE, 0, "", items, <<>>)
PyList(elems) ==
    PyVal("list", FALSE, 0, "", [i \in 1..Len(elems) |-> <<"", elems[i]>>], <<>>)

DictHas(d, k) == \E i \in 1..Len(d.items) : d.items[i][1] = k

DictGet(d, k) == d.items[CHOOSE i \in 1..Len(d.items) : d.items[i][1] = k][2]

\* d.get(k, default)
DictGetOr(d, k, default) == IF DictHas(d, k) THEN DictGet(d, k) ELSE default

\* d[k] = val: an existing key keeps its place, a new key goes last
DictSet(d, k, val) ==
    IF DictHas(d, k)
    THEN PyDict([i \in 1..Len(d.items) |->
                    IF d.items[i][1] = k THEN <<k, val>> ELSE d.items[i]])
    ELSE PyDict(Append(d.items, <<k, val>>))

\* bool(x)
Truthy(x) ==
    CASE x.t = "none" -> FALSE
      [] x.t = "bool" -> x.b
      [] x.t = "int"  -> x.n # 0
      [] x.t = "str"  -> x.s # ""
      [] x.t \in {"dict", "list"} -> Len(x.items) > 0
      [] OTHER        -> TRUE

-----------------------------------------------------------------------------
(* str() and repr() *)

Digit(d) == SubSeq("0123456789", d + 1, d + 1)

RECURSIVE NatStr(_)
NatStr(n) == IF n < 10 THEN Digit(n) ELSE NatStr(n \div 10) \o Digit(n % 10)

IntStr(n) == IF n < 0 THEN "-" \o NatStr(0 - n) ELSE NatStr(n)

\* repr() of a str that holds no double quote, backslash or control
\* character: double quotes around a text that holds a single quote
StrRepr(s) ==
    IF \E i \in 1..Len(s) : SubSeq(s, i, i) = "'"
    THEN "\"" \o s \o "\""
    ELSE "'" \o s \o "'"

\* repr() of a value
RECURSIVE PyRepr(_)
RECURSIVE ReprItems(_)
RECURSIVE ReprElems(_)
PyRepr(x) ==
    CASE x.t = "none" -> "None"
      [] x.t = "bool" -> IF x.b THEN "True" ELSE "False"
      [] x.t = "int"  -> IntStr(x.n)
      [] x.t = "str"  -> StrRepr(x.s)
      [] x.t = "dict" -> "{" \o ReprItems(x.items) \o "}"
      [] x.t = "list" -> "[" \o ReprElems(x.items) \o "]"

ReprItems(items) ==
    IF items = <<>> THEN ""
    ELSE StrRepr(items[1][1]) \o ": " \o PyRepr(items[1][2])
         \o (IF Len(items) > 1 THEN ", " \o ReprItems(Tail(items)) ELSE "")

ReprElems(items) ==
    IF items = <<>> THEN ""
    ELSE PyRepr(items[1][2])
         \o (IF Len(items) > 1 THEN ", " \o ReprElems(Tail(items)) ELSE "")

\* str(x), also what an f-string puts for {x}
PyToStr(x) == IF x.t = "str" THEN x.s ELSE PyRepr(x)

-----------------------------------------------------------------------------
(* string helpers: str.strip, str.split *)

RECURSIVE LStrip(_)
LStrip(s) == IF s # "" /\ Head(s) = " " THEN LStrip(Tail(s)) ELSE s

RECURSIVE RStrip(_)
RStrip(s) ==
    IF s # "" /\ SubSeq(s, Len(s), Len(s)) = " "
    THEN RStrip(SubSeq(s, 1, Len(s) - 1))
    ELSE s

Strip(s) == RStrip(LStrip(s))

\* the length of the longest prefix of s holding no character c
RECURSIVE RunNot(_, _)
RunNot(s, c) == IF s = "" \/ Head(s) = c THEN 0 ELSE 1 + RunNot(Tail(s), c)

\* s.split(c) for a one-character separator
RECURSIVE Split(_, _)
Split(s, c) ==
    LET n == RunNot(s, c)
    IN  IF n = Len(s) THEN <<s>>
        ELSE <<SubSeq(s, 1, n)>> \o Split(SubSeq(s, n + 2, Len(s)), c)

-----------------------------------------------------------------------------
(* PlaybookEngine._get_nested_value and _resolve_variables *)

RECURSIVE WalkPath(_, _)
WalkPath(value, parts) ==
    IF parts = <<>> THEN value
    ELSE IF value.t = "dict" /\ DictHas(value, Head(parts))
         THEN WalkPath(DictGet(value, Head(parts)), Tail(parts))
         ELSE PyNone

get_nested_value(ctx, path) == WalkPath(ctx, Split(path, "."))

\* the length of the match of \{\{([^}]+)\}\} at the start of s, 0 for none
TokenLen(s) ==
    IF Len(s) >= 5 /\ SubSeq(s, 1, 2) = "{{"
    THEN LET n == RunNot(SubSeq(s, 3, Len(s)), "}")
         IN  IF n >= 1 /\ n + 4 <= Len(s) /\ SubSeq(s, n + 3, n + 4) = "}}"
             THEN n + 4
             ELSE 0
    ELSE 0

\* a variant of replacer that blanks a token it finds no value for
replacer_blank(ctx, tok) ==
    LET var_path == Strip(SubSeq(tok, 3, Len(tok) - 2))
        value == get_nested_value(ctx, var_path)
    IN  IF value.t # "none" THEN PyToStr(value) ELSE ""

\* a variant of replacer that writes the string form of whatever the path
\* leads to
replacer_always(ctx, tok) ==
    LET var_path == Strip(SubSeq(tok, 3, Len(tok) - 2))
    IN  PyToStr(get_nested_value(ctx, var_path))

\* replacer(match), tok being match.group(0)
replacer(ctx, tok) ==
    LET var_path == Strip(SubSeq(tok, 3, Len(tok) - 2))
        value == get_nested_value(ctx, var_path)
    IN  IF value.t # "none" THEN PyToStr(value) ELSE tok

\* re.sub(pattern, replacer, s): leftmost matches, the replacement not rescanned
RECURSIVE ReSub(_, _)
ReSub(ctx, s) ==
    IF s = "" THEN ""
    ELSE LET m == TokenLen(s)
         IN  IF m > 0
             THEN replacer(ctx, SubSeq(s, 1, m)) \o ReSub(ctx, SubSeq(s, m + 1, Len(s)))
             ELSE Head(s) \o ReSub(ctx, Tail(s))

\* a variant of resolve_variables that scans str(text) of a non-string
resolve_variables_coercing(ctx, tmpl) ==
    PyStr(ReSub(ctx, PyToStr(tmpl)))

resolve_variables(ctx, tmpl) ==
    IF tmpl.t # "str" THEN tmpl ELSE PyStr(ReSub(ctx, tmpl.s))

-----------------------------------------------------------------------------
(* Exceptions.  An exception is [cls, msg]; str(e) is msg. *)

NoExc == [cls |-> "", msg |-> ""]

\* isinstance(e, Exception): what `except Exception` catches
IsException(cls) == cls \notin {"SystemExit", "KeyboardInterrupt", "GeneratorExit"}

Ok(val) == [ok |-> TRUE, val |-> val, cls |-> "", msg |-> ""]
Err(cls, msg) == [ok |-> FALSE, val |-> PyNone, cls |-> cls, msg |-> msg]

\* a call that has not returned
NoResult == Err("", "")

\* type(x).__name__
TypeName(x) == IF x.t = "none" THEN "NoneType" ELSE x.t

IsNumber(x) == x.t \in {"int", "bool"}

\* the integer a bool or an int stands for
Num(x) == IF x.t = "bool" THEN (IF x.b THEN 1 ELSE 0) ELSE x.n

-----------------------------------------------------------------------------
(* eval(condition, {"__builtins__": {}}, context), for the expressions       *)
(*     operand   |   operand > operand   |   operand < operand               *)
(*     |   operand == operand                                                *)
(* written with single spaces; an operand is an integer literal, True,       *)
(* False, None, a name, or what an unresolved token leaves behind: the set   *)
(* display {{name}} or {{name.attr}}.  Strings are never ordered and dicts   *)
(* never compared by the modelled playbooks.                                 *)

IdentStart == "abcdefghijklmnopqrstuvwxyzABCDEFGHIJKLMNOPQRSTUVWXYZ_"
IdentChars == IdentStart \o "0123456789"

CharIn(c, s) == \E i \in 1..Len(s) : SubSeq(s, i, i) = c

AllIn(w, s) == \A i \in 1..Len(w) : CharIn(SubSeq(w, i, i), s)

IsIdent(w) == w # "" /\ CharIn(Head(w), IdentStart) /\ AllIn(w, IdentChars)

IsIntLit(w) ==
    LET d == IF w # "" /\ Head(w) = "-" THEN Tail(w) ELSE w
    IN  d # "" /\ AllIn(d, "0123456789")

RECURSIVE ParseNat(_)
ParseNat(w) ==
    IF w = "" THEN 0
    ELSE 10 * ParseNat(SubSeq(w, 1, Len(w) - 1))
         + (CHOOSE d \in 0..9 : Digit(d) = SubSeq(w, Len(w), Len(w)))

ParseInt(w) == IF Head(w) = "-" THEN 0 - ParseNat(Tail(w)) ELSE ParseNat(w)

\* the words of s: s.split()
Words(s) == SelectSeq(Split(s, " "), LAMBDA w : w # "")

\* {{a}} or {{a.b...}} with identifier segments
IsSetDisplay(w) ==
    /\ TokenLen(w) = Len(w)
    /\ Len(w) >= 5
    /\ \A p \in {Split(SubSeq(w, 3, Len(w) - 2), ".")} :
          \A i \in 1..Len(p) : IsIdent(p[i])

IsOperand(w) ==
    IsIntLit(w) \/ IsIdent(w) \/ IsSetDisplay(w)

EvalName(w, ctx) ==
    IF DictHas(ctx, w) THEN Ok(DictGet(ctx, w))
    ELSE Err("NameError", "name '" \o w \o "' is not defined")

EvalSetDisplay(w, ctx) ==
    LET p == Split(SubSeq(w, 3, Len(w) - 2), ".")
        head == EvalName(p[1], ctx)
    IN  IF ~head.ok THEN head
        ELSE IF Len(p) > 1
        THEN Err("AttributeError", "'" \o TypeName(head.val)
                 \o "' object has no attribute '" \o p[2] \o "'")
        ELSE IF head.val.t \in {"dict", "list"}
        THEN Err("TypeError", "unhashable type: '" \o TypeName(head.val) \o "'")
        ELSE Err("TypeError", "unhashable type: 'set'")

EvalOperand(w, ctx) ==
    IF IsIntLit(w) THEN Ok(PyInt(ParseInt(w)))
    ELSE IF w = "True" THEN Ok(PyBool(TRUE))
    ELSE IF w = "False" THEN Ok(PyBool(FALSE))
    ELSE IF w = "None" THEN Ok(PyNone)
    ELSE IF IsIdent(w) THEN EvalName(w, ctx)
    ELSE EvalSetDisplay(w, ctx)

\* a == b
PyEq(a, b) ==
    IF IsNumber(a) /\ IsNumber(b) THEN Num(a) = Num(b)
    ELSE a = b

EvalCompare(op, a, b) ==
    IF op = "==" THEN Ok(PyBool(PyEq(a, b)))
    ELSE IF IsNumber(a) /\ IsNumber(b)
    THEN Ok(PyBool(IF op = ">" THEN Num(a) > Num(b) ELSE Num(a) < Num(b)))
    ELSE Err("TypeError", "'" \o op \o "' not supported between instances of '"
             \o TypeName(a) \o "' and '" \o TypeName(b) \o "'")

\* (name := operand) op operand, an assignment expression on the left
IsWalrus(w) ==
    /\ Len(w) = 5
    /\ Len(w[1]) >= 2 /\ Head(w[1]) = "(" /\ IsIdent(Tail(w[1]))
    /\ Tail(w[1]) \notin {"True", "False", "None"}
    /\ w[2] = ":="
    /\ Len(w[3]) >= 2 /\ SubSeq(w[3], Len(w[3]), Len(w[3])) = ")"
    /\ IsOperand(SubSeq(w[3], 1, Len(w[3]) - 1))
    /\ w[4] \in {">", "<", "=="}
    /\ IsOperand(w[5])

\* the locals mapping after eval(src, globals, ctx): an assignment expression
\* stores its name in the locals, which are the mapping eval was given
EvalLocals(src, ctx) ==
    IF src.t # "str" THEN ctx
    ELSE LET w == Words(src.s)
         IN  IF ~IsWalrus(w) THEN ctx
             ELSE LET a == EvalOperand(SubSeq(w[3], 1, Len(w[3]) - 1), ctx)
                  IN  IF a.ok THEN DictSet(ctx, Tail(w[1]), a.val) ELSE ctx

PyEval(src, ctx) ==
    IF src.t # "str"
    THEN Err("TypeError", "eval() arg 1 must be a string, bytes or code object")
    ELSE LET w == Words(src.s)
         IN  IF Len(w) = 1 /\ IsOperand(w[1])
             THEN EvalOperand(w[1], ctx)
             ELSE IF IsWalrus(w)
             THEN LET a == EvalOperand(SubSeq(w[3], 1, Len(w[3]) - 1), ctx)
                      b == EvalOperand(w[5], EvalLocals(src, ctx))
                  IN  IF ~a.ok THEN a
                      ELSE IF ~b.ok THEN b
                      ELSE EvalCompare(w[4], a.val, b.val)
             ELSE IF /\ Len(w) = 3
                     /\ IsOperand(w[1])
                     /\ w[2] \in {">", "<", "=="}
                     /\ IsOperand(w[3])
             THEN LET a == EvalOperand(w[1], ctx)
                      b == EvalOperand(w[3], ctx)
                  IN  IF ~a.ok THEN a
                      ELSE IF ~b.ok THEN b
                      ELSE EvalCompare(w[2], a.val, b.val)
             ELSE Err("SyntaxError", "invalid syntax (<string>, line 1)")

-----------------------------------------------------------------------------
(* exec(code, exec_globals).  A code body is a list of statements            *)
(*     name = expr            [op |-> "assign", name, expr]                  *)
(*     raise Cls(msg)         [op |-> "raise", name |-> Cls, expr |-> msg]   *)
(* over the expressions  literal | name | name + literal.                    *)

PyCode(stmts) == PyVal("code", FALSE, 0, "", <<>>, stmts)

Const(val) == [e |-> "const", name |-> "", val |-> val]
Var(name) == [e |-> "var", name |-> name, val |-> PyNone]
Plus(name, n) == [e |-> "add", name |-> name, val |-> PyInt(n)]

Assign(name, expr) == [op |-> "assign", name |-> name, expr |-> expr]
RaiseStmt(cls, msg) == [op |-> "raise", name |-> cls, expr |-> Const(PyStr(msg))]

\* a + b for an integer literal b
EvalPlus(a, b) ==
    IF IsNumber(a) THEN Ok(PyInt(Num(a) + Num(b)))
    ELSE IF a.t \in {"str", "list"}
    THEN Err("TypeError", "can only concatenate " \o a.t \o " (not \"int\") to " \o a.t)
    ELSE Err("TypeError", "unsupported operand type(s) for +: '"
             \o TypeName(a) \o "' and 'int'")

EvalExpr(expr, env) ==
    IF expr.e = "const" THEN Ok(expr.val)
    ELSE LET a == EvalName(expr.name, env)
         IN  IF expr.e = "var" \/ ~a.ok THEN a ELSE EvalPlus(a.val, expr.val)

\* runs the statements over env; Ok(env after the last one) or the exception
RECURSIVE ExecStmts(_, _)
ExecStmts(stmts, env) ==
    IF stmts = <<>> THEN Ok(env)
    ELSE LET st == Head(stmts)
         IN  IF st.op = "raise" THEN Err(st.name, st.expr.val.s)
             ELSE LET r == EvalExpr(st.expr, env)
                  IN  IF ~r.ok THEN r
                      ELSE ExecStmts(Tail(stmts), DictSet(env, st.name, r.val))

\* exec(code, exec_globals); the '' default of parameters.get('code', '') is
\* the empty body
PyExec(code, exec_globals) ==
    IF code.t = "code" THEN ExecStmts(code.code, exec_globals) ELSE Ok(exec_globals)

-----------------------------------------------------------------------------
(* The integrations (src/src/integrations) and the IntegrationManager *)

StartsWith(s, p) == Len(s) >= Len(p) /\ SubSeq(s, 1, Len(p)) = p

\* VirusTotalIntegration with its api_key
VirusTotal(api_key) ==
    PyVal("virustotal", FALSE, 0, "", << <<"api_key", api_key>> >>, <<>>)

\* IntegrationManager with its integrations dict
Manager(integrations) ==
    PyVal("manager", FALSE, 0, "", << <<"integrations", integrations>> >>, <<>>)

mock_ip_response(ip) ==
    LET internal == StartsWith(ip.s, "192.168") \/ StartsWith(ip.s, "10.")
    IN  PyDict(<< <<"ip", ip>>,
                  <<"malicious", PyInt(IF internal THEN 0 ELSE 5)>>,
                  <<"suspicious", PyInt(2)>>,
                  <<"harmless", PyInt(50)>>,
                  <<"undetected", PyInt(20)>>,
                  <<"reputation", PyInt(IF internal THEN 100 ELSE 0 - 20)>> >>)

\* BaseIntegration._make_request: remote is what the HTTP request met, either
\* [ok |-> TRUE, stats |-> the last_analysis_stats dict of the reply] or
\* [ok |-> FALSE, error |-> str(e) of the RequestException]
make_request(remote) ==
    IF remote.ok
    THEN PyDict(<< <<"success", PyBool(TRUE)>>,
                   <<"status_code", PyInt(200)>>,
                   <<"data", PyDict(<< <<"data", PyDict(<< <<"attributes",
                        PyDict(<< <<"last_analysis_stats", remote.stats>> >>)>> >>)>> >>)>> >>)
    ELSE PyDict(<< <<"success", PyBool(FALSE)>>,
                   <<"error", PyStr(remote.error)>>,
                   <<"data", PyNone>> >>)

check_ip(integration, ip, remote) ==
    IF ~Truthy(DictGet(integration, "api_key"))
    THEN IF ip.t # "str"
         THEN Err("AttributeError", "'" \o TypeName(ip)
                  \o "' object has no attribute 'startswith'")
         ELSE Ok(PyDict(<< <<"success", PyBool(FALSE)>>,
                           <<"error", PyStr("VirusTotal API key not configured")>>,
                           <<"mock_data", PyBool(TRUE)>>,
                           <<"data", mock_ip_response(ip)>> >>))
    ELSE LET response == make_request(remote)
         IN  IF Truthy(DictGet(response, "success"))
             THEN LET stats == remote.stats
                      Stat(k) == DictGetOr(stats, k, PyInt(0))
                  IN  Ok(PyDict(<< <<"success", PyBool(TRUE)>>,
                                   <<"ip", ip>>,
                                   <<"malicious", Stat("malicious")>>,
                                   <<"suspicious", Stat("suspicious")>>,
                                   <<"harmless", Stat("harmless")>>,
                                   <<"undetected", Stat("undetected")>>,
                                   <<"reputation", Stat("reputation")>> >>))
             ELSE Ok(response)

\* VirusTotalIntegration.execute_action; the modelled playbooks call check_ip
\* and method names the integration does not know
virustotal_execute_action(integration, action_name, parameters, remote) ==
    IF action_name.t = "str" /\ action_name.s = "check_ip"
    THEN check_ip(integration, DictGetOr(parameters, "ip", PyNone), remote)
    ELSE Ok(PyDict(<< <<"success", PyBool(FALSE)>>,
                      <<"error", PyStr("Unknown action: " \o PyToStr(action_name))>> >>))

\* a variant of manager_execute_action that raises for an integration it has
\* not registered
manager_execute_action_strict(manager, integration_name, action_name, parameters, remote) ==
    LET integration ==
            IF integration_name.t = "str"
            THEN DictGetOr(DictGet(manager, "integrations"), integration_name.s, PyNone)
            ELSE PyNone
    IN  IF ~Truthy(integration)
        THEN Err("KeyError", PyRepr(integration_name))
        ELSE virustotal_execute_action(integration, action_name, parameters, remote)

\* IntegrationManager.execute_action
manager_execute_action(manager, integration_name, action_name, parameters, remote) ==
    LET integration ==
            IF integration_name.t = "str"
            THEN DictGetOr(DictGet(manager, "integrations"), integration_name.s, PyNone)
            ELSE PyNone
    IN  IF ~Truthy(integration)
        THEN Ok(PyDict(<< <<"success", PyBool(FALSE)>>,
                          <<"error", PyStr("Integration '" \o PyToStr(integration_name)
                                           \o "' not found or not enabled")>> >>))
        ELSE virustotal_execute_action(integration, action_name, parameters, remote)

-----------------------------------------------------------------------------
(* The Action and Playbook dataclasses (src/src/models/playbook.py) *)

Action(id, type, parameters, output_variable, condition, if_true, if_false) ==
    [id |-> id, type |-> type, parameters |-> parameters,
     output_variable |-> output_variable, condition |-> condition,
     if_true |-> if_true, if_false |-> if_false]

\* an Optional[List[Action]]: None, or the list
NoList == [present |-> FALSE, actions |-> <<>>]
ActionList(actions) == [present |-> TRUE, actions |-> actions]

\* bool(l) of an Optional[List[Action]]
ListTruthy(l) == l.present /\ Len(l.actions) > 0

\* an action that is no condition: the dataclass defaults for the rest
Leaf(id, type, parameters, output_variable) ==
    Action(id, type, PyDict(parameters), output_variable, PyNone, NoList, NoList)

Playbook(name, actions) == [name |-> name, actions |-> actions]

NoAction == Leaf("", "", <<>>, PyNone)

-----------------------------------------------------------------------------
(* PlaybookEngine *)

\* _log: the entry, without its timestamp
LogEntry(level, message) == [level |-> level, message |-> message]

\* a variant of log that writes every entry at the default level
log_default(entries, message, level) == Append(entries, LogEntry("INFO", message))

log(entries, message, level) == Append(entries, LogEntry(level, message))

\* the for-loops that have an action left, innermost last
RECURSIVE Unwind(_)
Unwind(stk) ==
    IF stk # <<>> /\ stk[Len(stk)].i > Len(stk[Len(stk)].actions)
    THEN Unwind(SubSeq(stk, 1, Len(stk) - 1))
    ELSE stk

Frame(actions) == [actions |-> actions, i |-> 1]

\* a variant of Raise: the loop records the exception and goes on with the
\* next action
RaiseAndGoOn(cls, msg) ==
    /\ exc' = [cls |-> cls, msg |-> msg]
    /\ stack' = Unwind(stack)
    /\ pc' = "walk"

\* an exception leaves every pending loop at once and reaches execute's handler
Raise(cls, msg) ==
    /\ exc' = [cls |-> cls, msg |-> msg]
    /\ stack' = <<>>
    /\ pc' = "except"

\* the handler returned: back in the innermost loop that has an action left
Continue(stk) ==
    /\ exc' = exc
    /\ stack' = Unwind(stk)
    /\ pc' = "walk"

\* a variant of Report that rolls a failed run's context back to its inputs
ReportRolledBack(status, error, entries, ctx) ==
    [status |-> status, error |-> error, execution_log |-> entries,
     context |-> IF status = "FAILED" THEN PyDict(<<ctx.items[1]>>) ELSE ctx]

\* the dictionary execute returns, lines 53-59, without duration_seconds
Report(status, error, entries, ctx) ==
    [status |-> status, error |-> error, execution_log |-> entries, context |-> ctx]

\* execute has not returned
NoReport == Report("", PyNone, <<>>, PyDict(<<>>))

\* a variant of Execute that sets the inputs in the context it has
ExecuteKeepingContext(pb, inputs) ==
    /\ context' = DictSet(context, "inputs", IF Truthy(inputs) THEN inputs ELSE PyDict(<<>>))
    /\ execution_log' = log(<<>>, "Starting playbook: " \o pb.name, "INFO")
    /\ retired' = Append(retired, [context |-> context, execution_log |-> execution_log,
                                 inputs |-> inputs])
    /\ playbook' = pb
    /\ exc' = NoExc
    /\ stack' = Unwind(<<Frame(pb.actions)>>)
    /\ pc' = "walk"
    /\ current' = NoAction
    /\ report' = NoReport
    /\ executed' = <<>>
    /\ gateway_calls' = <<>>
    /\ evaluated' = <<>>
    /\ before' = [context |-> context', execution_log |-> execution_log',
                  gateway_calls |-> <<>>]
    /\ UNCHANGED <<integration_manager, returned, pieces, text, resolved, held, db, last, clock, uuids>>

\* a variant of Execute that goes on writing to the log it has
ExecuteAppending(pb, inputs) ==
    /\ context' = PyDict(<< <<"inputs", IF Truthy(inputs) THEN inputs ELSE PyDict(<<>>)>> >>)
    /\ execution_log' = log(execution_log, "Starting playbook: " \o pb.name, "INFO")
    /\ retired' = Append(retired, [context |-> context, execution_log |-> execution_log,
                                 inputs |-> inputs])
    /\ playbook' = pb
    /\ exc' = NoExc
    /\ stack' = Unwind(<<Frame(pb.actions)>>)
    /\ pc' = "walk"
    /\ current' = NoAction
    /\ report' = NoReport
    /\ executed' = <<>>
    /\ gateway_calls' = <<>>
    /\ evaluated' = <<>>
    /\ before' = [context |-> context', execution_log |-> execution_log',
                  gateway_calls |-> <<>>]
    /\ UNCHANGED <<integration_manager, returned, pieces, text, resolved, held, db, last, clock, uuids>>

\* execute, lines 32-36 and the entry of the for loop.  Lines 32 and 33 bind
\* self.context and self.execution_log to new objects; the objects bound until
\* then stay as they are with whoever holds them: retired keeps them, with the
\* inputs of the call that let go of them.  The histories of the run start
\* empty.
Execute(pb, inputs) ==
    /\ context' = PyDict(<< <<"inputs", IF Truthy(inputs) THEN inputs ELSE PyDict(<<>>)>> >>)
    /\ execution_log' = log(<<>>, "Starting playbook: " \o pb.name, "INFO")
    /\ retired' = Append(retired, [context |-> context, execution_log |-> execution_log,
                                 inputs |-> inputs])
    /\ playbook' = pb
    /\ exc' = NoExc
    /\ stack' = Unwind(<<Frame(pb.actions)>>)
    /\ pc' = "walk"
    /\ current' = NoAction
    /\ report' = NoReport
    /\ executed' = <<>>
    /\ gateway_calls' = <<>>
    /\ evaluated' = <<>>
    /\ before' = [context |-> context', execution_log |-> execution_log',
                  gateway_calls |-> <<>>]
    /\ UNCHANGED <<integration_manager, returned, pieces, text, resolved, held, db, last, clock, uuids>>

\* a variant of ExecuteAction that announces nothing
ExecuteActionUnannounced ==
    /\ pc = "walk"
    /\ stack # <<>>
    /\ LET top == stack[Len(stack)]
           action == top.actions[top.i]
       IN  /\ current' = action
           /\ stack' = [stack EXCEPT ![Len(stack)].i = top.i + 1]
           /\ executed' = Append(executed, action.id)
    /\ before' = [context |-> context, execution_log |-> execution_log,
                  gateway_calls |-> gateway_calls]
    /\ pc' = "dispatch"
    /\ UNCHANGED <<integration_manager, context, execution_log, playbook, exc, report,
                   gateway_calls, evaluated, returned, retired, pieces, text, resolved, held, db, last, clock, uuids>>

\* _execute_action, line 63: the next action of the innermost loop is announced
ExecuteAction ==
    /\ pc = "walk"
    /\ stack # <<>>
    /\ LET top == stack[Len(stack)]
           action == top.actions[top.i]
       IN  /\ execution_log' = log(execution_log, "Executing action: " \o action.id
                                   \o " (type: " \o action.type \o ")", "INFO")
           /\ current' = action
           /\ stack' = [stack EXCEPT ![Len(stack)].i = top.i + 1]
           /\ executed' = Append(executed, action.id)
    /\ before' = [context |-> context, execution_log |-> execution_log,
                  gateway_calls |-> gateway_calls]
    /\ pc' = "dispatch"
    /\ UNCHANGED <<integration_manager, context, playbook, exc, report,
                   gateway_calls, evaluated, returned, retired, pieces, text, resolved, held, db, last, clock, uuids>>

\* the kinds _execute_action dispatches on, lines 66-75
KnownTypes == {"log", "python_code", "condition", "set_variable", "api_call"}

\* a variant of ActionLog that writes the message as the playbook has it
ActionLogVerbatim ==
    /\ pc = "dispatch"
    /\ current.type = "log"
    /\ LET message == DictGetOr(current.parameters, "message", PyStr(""))
       IN  execution_log' = log(execution_log, "LOG: " \o PyToStr(message), "INFO")
    /\ Continue(stack)
    /\ UNCHANGED <<integration_manager, context, playbook, current, report,
                   executed, gateway_calls, before, evaluated,
                   returned, retired, pieces, text, resolved, held, db, last, clock, uuids>>

ActionLog ==
    /\ pc = "dispatch"
    /\ current.type = "log"
    /\ LET message == resolve_variables(context,
                          DictGetOr(current.parameters, "message", PyStr("")))
       IN  execution_log' = log(execution_log, "LOG: " \o PyToStr(message), "INFO")
    /\ Continue(stack)
    /\ UNCHANGED <<integration_manager, context, playbook, current, report,
                   executed, gateway_calls, before, evaluated,
                   returned, retired, pieces, text, resolved, held, db, last, clock, uuids>>

\* a variant of ActionPythonCode that runs the body and stores nothing
ActionPythonCodeDiscarding ==
    /\ pc = "dispatch"
    /\ current.type = "python_code"
    /\ LET code == DictGetOr(current.parameters, "code", PyStr(""))
           r == PyExec(code, context)
       IN  IF ~r.ok
           THEN /\ Raise(r.cls, r.msg)
                /\ UNCHANGED <<context, execution_log>>
           ELSE /\ Continue(stack)
                /\ UNCHANGED <<context, execution_log>>
    /\ UNCHANGED <<integration_manager, playbook, current, report, executed,
                   gateway_calls, before, evaluated,
                   returned, retired, pieces, text, resolved, held, db, last, clock, uuids>>

\* a variant of ActionPythonCode that captures result only when the body's own
\* statements assign it
ActionPythonCodeOwnResult ==
    /\ pc = "dispatch"
    /\ current.type = "python_code"
    /\ LET code == DictGetOr(current.parameters, "code", PyStr(""))
           r == PyExec(code, context)
       IN  IF ~r.ok
           THEN /\ Raise(r.cls, r.msg)
                /\ UNCHANGED <<context, execution_log>>
           ELSE IF /\ Truthy(current.output_variable)
                   /\ \E i \in 1..Len(code.code) :
                         code.code[i].op = "assign" /\ code.code[i].name = "result"
           THEN /\ context' = DictSet(context, current.output_variable.s,
                                      DictGet(r.val, "result"))
                /\ execution_log' = log(execution_log, "Stored result in variable: "
                                        \o PyToStr(current.output_variable), "INFO")
                /\ Continue(stack)
           ELSE /\ Continue(stack)
                /\ UNCHANGED <<context, execution_log>>
    /\ UNCHANGED <<integration_manager, playbook, current, report, executed,
                   gateway_calls, before, evaluated,
                   returned, retired, pieces, text, resolved, held, db, last, clock, uuids>>

ActionPythonCode ==
    /\ pc = "dispatch"
    /\ current.type = "python_code"
    /\ LET code == DictGetOr(current.parameters, "code", PyStr(""))
           r == PyExec(code, context)
       IN  IF ~r.ok
           THEN /\ Raise(r.cls, r.msg)
                /\ UNCHANGED <<context, execution_log>>
           ELSE IF Truthy(current.output_variable) /\ DictHas(r.val, "result")
           THEN /\ context' = DictSet(context, current.output_variable.s,
                                      DictGet(r.val, "result"))
                /\ execution_log' = log(execution_log, "Stored result in variable: "
                                        \o PyToStr(current.output_variable), "INFO")
                /\ Continue(stack)
           ELSE /\ Continue(stack)
                /\ UNCHANGED <<context, execution_log>>
    /\ UNCHANGED <<integration_manager, playbook, current, report, executed,
                   gateway_calls, before, evaluated,
                   returned, retired, pieces, text, resolved, held, db, last, clock, uuids>>

\* a variant of Branch with a plain else: a true result without an if_true
\* list falls into if_false
BranchElse(result, action) ==
    IF Truthy(result) /\ ListTruthy(action.if_true) THEN action.if_true.actions
    ELSE action.if_false.actions

\* lines 110-115: the children _action_condition goes on to execute
Branch(result, action) ==
    IF Truthy(result) /\ ListTruthy(action.if_true) THEN action.if_true.actions
    ELSE IF ~Truthy(result) /\ ListTruthy(action.if_false) THEN action.if_false.actions
    ELSE <<>>

\* a variant of ActionCondition that evaluates the expression with the inputs
\* of the run as its only variable
ActionConditionOnInputs ==
    /\ pc = "dispatch"
    /\ current.type = "condition"
    /\ LET condition == resolve_variables(context, current.condition)
           r == PyEval(condition, PyDict(<<context.items[1]>>))
       IN  /\ context' = context
           /\ IF ~r.ok
              THEN /\ Raise(r.cls, r.msg)
                   /\ UNCHANGED <<execution_log, evaluated>>
              ELSE /\ execution_log' = log(execution_log, "Condition '" \o PyToStr(condition)
                                           \o "' evaluated to: " \o PyToStr(r.val), "INFO")
                   /\ evaluated' = Append(evaluated, <<current.id, r.val>>)
                   /\ Continue(Append(stack, Frame(Branch(r.val, current))))
    /\ UNCHANGED <<integration_manager, playbook, current, report,
                   executed, gateway_calls, before, returned, retired, pieces, text, resolved, held, db, last, clock, uuids>>

ActionCondition ==
    /\ pc = "dispatch"
    /\ current.type = "condition"
    /\ LET condition == resolve_variables(context, current.condition)
           r == PyEval(condition, context)
       IN  /\ context' = EvalLocals(condition, context)
           /\ IF ~r.ok
              THEN /\ Raise(r.cls, r.msg)
                   /\ UNCHANGED <<execution_log, evaluated>>
              ELSE /\ execution_log' = log(execution_log, "Condition '" \o PyToStr(condition)
                                           \o "' evaluated to: " \o PyToStr(r.val), "INFO")
                   /\ evaluated' = Append(evaluated, <<current.id, r.val>>)
                   /\ Continue(Append(stack, Frame(Branch(r.val, current))))
    /\ UNCHANGED <<integration_manager, playbook, current, report,
                   executed, gateway_calls, before, returned, retired, pieces, text, resolved, held, db, last, clock, uuids>>

\* a variant of ActionSetVariable that keeps a binding the context has
ActionSetVariableOnce ==
    /\ pc = "dispatch"
    /\ current.type = "set_variable"
    /\ LET var_name == DictGetOr(current.parameters, "name", PyNone)
           var_value == resolve_variables(context,
                            DictGetOr(current.parameters, "value", PyNone))
       IN  /\ context' = IF DictHas(context, var_name.s) THEN context
                         ELSE DictSet(context, var_name.s, var_value)
           /\ execution_log' = log(execution_log, "Set variable '" \o PyToStr(var_name)
                                   \o "' = " \o PyToStr(var_value), "INFO")
    /\ Continue(stack)
    /\ UNCHANGED <<integration_manager, playbook, current, report, executed,
                   gateway_calls, before, evaluated,
                   returned, retired, pieces, text, resolved, held, db, last, clock, uuids>>

ActionSetVariable ==
    /\ pc = "dispatch"
    /\ current.type = "set_variable"
    /\ LET var_name == DictGetOr(current.parameters, "name", PyNone)
           var_value == resolve_variables(context,
                            DictGetOr(current.parameters, "value", PyNone))
       IN  /\ context' = DictSet(context, var_name.s, var_value)
           /\ execution_log' = log(execution_log, "Set variable '" \o PyToStr(var_name)
                                   \o "' = " \o PyToStr(var_value), "INFO")
    /\ Continue(stack)
    /\ UNCHANGED <<integration_manager, playbook, current, report, executed,
                   gateway_calls, before, evaluated,
                   returned, retired, pieces, text, resolved, held, db, last, clock, uuids>>

\* lines 136-138
resolve_params(ctx, params) ==
    PyDict([i \in 1..Len(params.items) |->
               <<params.items[i][1], resolve_variables(ctx, params.items[i][2])>>])

\* what an HTTP request of an integration can meet
RemoteOutcomes ==
    { [ok |-> TRUE, error |-> "",
       stats |-> PyDict(<< <<"malicious", PyInt(3)>>, <<"harmless", PyInt(60)>> >>)],
      [ok |-> FALSE, error |-> "connection refused", stats |-> PyDict(<<>>)] }

\* a variant of ActionApiCall that, without a manager, stores None and goes on
ActionApiCallLenient ==
    /\ pc = "dispatch"
    /\ current.type = "api_call"
    /\ context' = IF Truthy(current.output_variable)
                  THEN DictSet(context, current.output_variable.s, PyNone)
                  ELSE context
    /\ Continue(stack)
    /\ UNCHANGED <<integration_manager, execution_log, playbook, current, report,
                   executed, gateway_calls, before, evaluated, returned, retired, pieces, text, resolved, held, db, last, clock, uuids>>

ActionApiCall ==
    /\ pc = "dispatch"
    /\ current.type = "api_call"
    /\ IF ~Truthy(integration_manager)
       THEN /\ Raise("ValueError", "Integration manager not configured")
            /\ UNCHANGED <<execution_log, gateway_calls>>
       ELSE LET integration == DictGetOr(current.parameters, "integration", PyNone)
                method == DictGetOr(current.parameters, "method", PyNone)
                params == DictGetOr(current.parameters, "parameters", PyDict(<<>>))
                resolved_params == resolve_params(context, params)
            IN  /\ execution_log' = log(execution_log, "Calling " \o PyToStr(integration)
                                        \o "." \o PyToStr(method) \o " with params: "
                                        \o PyToStr(resolved_params), "INFO")
                /\ gateway_calls' = Append(gateway_calls,
                        [integration |-> integration, method |-> method,
                         parameters |-> resolved_params, result |-> NoResult])
                /\ pc' = "calling"
                /\ UNCHANGED <<exc, stack>>
    /\ UNCHANGED <<integration_manager, context, playbook, current, report, executed,
                   before, evaluated,
                   returned, retired, pieces, text, resolved, held, db, last, clock, uuids>>

\* a variant of ApiCallReturn that asks the manager a second time when the
\* first answer reports no success
ApiCallReturnRetrying ==
    /\ pc = "calling"
    /\ \E remote \in RemoteOutcomes :
           LET call == gateway_calls[Len(gateway_calls)]
               result == manager_execute_action(integration_manager, call.integration,
                                                call.method, call.parameters, remote)
               answered == [call EXCEPT !.result = result]
           IN  /\ gateway_calls' =
                      IF result.ok /\ DictGetOr(result.val, "success", PyNone) = PyBool(FALSE)
                      THEN SubSeq(gateway_calls, 1, Len(gateway_calls) - 1)
                               \o <<answered, answered>>
                      ELSE [gateway_calls EXCEPT ![Len(gateway_calls)].result = result]
               /\ IF ~result.ok
                  THEN /\ Raise(result.cls, result.msg)
                       /\ UNCHANGED <<context, execution_log>>
                  ELSE IF Truthy(current.output_variable)
                  THEN /\ context' = DictSet(context, current.output_variable.s, result.val)
                       /\ execution_log' = log(execution_log, "Stored API result in variable: "
                                               \o PyToStr(current.output_variable), "INFO")
                       /\ Continue(stack)
                  ELSE /\ Continue(stack)
                       /\ UNCHANGED <<context, execution_log>>
    /\ UNCHANGED <<integration_manager, playbook, current, report, executed,
                   before, evaluated,
                   returned, retired, pieces, text, resolved, held, db, last, clock, uuids>>

\* lines 143-150: execute_action returns or raises
ApiCallReturn ==
    /\ pc = "calling"
    /\ \E remote \in RemoteOutcomes :
           LET call == gateway_calls[Len(gateway_calls)]
               result == manager_execute_action(integration_manager, call.integration,
                                                call.method, call.parameters, remote)
           IN  /\ gateway_calls' = [gateway_calls EXCEPT ![Len(gateway_calls)].result = result]
               /\ IF ~result.ok
                  THEN /\ Raise(result.cls, result.msg)
                       /\ UNCHANGED <<context, execution_log>>
                  ELSE IF Truthy(current.output_variable)
                  THEN /\ context' = DictSet(context, current.output_variable.s, result.val)
                       /\ execution_log' = log(execution_log, "Stored API result in variable: "
                                               \o PyToStr(current.output_variable), "INFO")
                       /\ Continue(stack)
                  ELSE /\ Continue(stack)
                       /\ UNCHANGED <<context, execution_log>>
    /\ UNCHANGED <<integration_manager, playbook, current, report, executed,
                   before, evaluated,
                   returned, retired, pieces, text, resolved, held, db, last, clock, uuids>>

\* a variant of ActionUnknown that skips the action
ActionUnknownSkipped ==
    /\ pc = "dispatch"
    /\ current.type \notin KnownTypes
    /\ Continue(stack)
    /\ UNCHANGED <<integration_manager, context, execution_log, playbook, current,
                   report, executed, gateway_calls, before, evaluated,
                   returned, retired, pieces, text, resolved, held, db, last, clock, uuids>>

\* line 77
ActionUnknown ==
    /\ pc = "dispatch"
    /\ current.type \notin KnownTypes
    /\ Raise("ValueError", "Unknown action type: " \o current.type)
    /\ UNCHANGED <<integration_manager, context, execution_log, playbook, current,
                   report, executed, gateway_calls, before, evaluated,
                   returned, retired, pieces, text, resolved, held, db, last, clock, uuids>>

\* the report as the caller got it, with the playbook it is of and the calls
\* of its run; the report's execution_log and context are the objects
\* self.execution_log and self.context are bound to at the return: the pair
\* after the retired ones
Returned(rep) ==
    Append(returned, [playbook |-> playbook, report |-> rep,
                      gateway_calls |-> gateway_calls, ref |-> Len(retired) + 1])

\* lines 43-44 and 50-59: the loop of line 40 ran out
ExecuteReturn ==
    /\ pc = "walk"
    /\ stack = <<>>
    /\ report' = Report("SUCCESS", PyNone, execution_log, context)
    /\ returned' = Returned(report')
    /\ pc' = "done"
    /\ UNCHANGED <<integration_manager, context, execution_log, playbook, stack,
                   current, exc, executed, gateway_calls, before, evaluated,
                   retired, pieces, text, resolved, held, db, last, clock, uuids>>

\* a variant of ExecuteExcept that reports the failure as a partial success
ExecuteExceptPartial ==
    /\ pc = "except"
    /\ IsException(exc.cls)
    /\ execution_log' = log(execution_log, "Playbook execution failed: " \o exc.msg, "ERROR")
    /\ report' = [status |-> IF executed = <<current.id>> THEN "FAILED" ELSE "PARTIAL",
                  error |-> PyStr(exc.msg), execution_log |-> execution_log',
                  context |-> context]
    /\ pc' = "done"
    /\ UNCHANGED <<integration_manager, context, playbook, stack, current, exc,
                   executed, gateway_calls, before, evaluated, returned, retired, pieces, text, resolved, held, db, last, clock, uuids>>

\* lines 45-48 and 50-59: `except Exception` catches the exception in flight
ExecuteExcept ==
    /\ pc = "except"
    /\ IsException(exc.cls)
    /\ execution_log' = log(execution_log, "Playbook execution failed: " \o exc.msg, "ERROR")
    /\ report' = Report("FAILED", PyStr(exc.msg), execution_log', context)
    /\ returned' = Returned(report')
    /\ pc' = "done"
    /\ UNCHANGED <<integration_manager, context, playbook, stack, current, exc,
                   executed, gateway_calls, before, evaluated,
                   retired, pieces, text, resolved, held, db, last, clock, uuids>>

\* line 45: an exception that is no Exception passes the handler and leaves execute
ExecutePropagate ==
    /\ pc = "except"
    /\ ~IsException(exc.cls)
    /\ pc' = "raised"
    /\ UNCHANGED <<integration_manager, context, execution_log, playbook, stack,
                   current, exc, report, executed, gateway_calls, before, evaluated,
                   returned, retired, pieces, text, resolved, held, db, last, clock, uuids>>

-----------------------------------------------------------------------------
(* Case (src/src/models/case.py) and CaseManager                             *)
(* (src/src/core/case_manager.py).  A Case, a CaseEvent and an Artifact are  *)
(* records of their fields.  A datetime is a number of ticks; isoformat      *)
(* writes it as NatStr does and fromisoformat reads it as ParseNat does.  An *)
(* Optional field is <<>> for None and <<v>> for the value v.  The value of  *)
(* uuid.uuid4() is named after its rank among the values drawn.  A column   *)
(* that may be NULL is <<>> when it is and <<v>> when it holds v, and a JSON  *)
(* text is the record [json |-> the document it is the text of].             *)

\* a variant of add_event that puts the newest event first
add_event_first(case, event_type, description, user, metadata, event_id, now) ==
    LET event == [id |-> event_id,
                  event_type |-> event_type,
                  description |-> description,
                  user |-> user,
                  timestamp |-> now,
                  metadata |-> IF Truthy(metadata) THEN metadata ELSE PyDict(<<>>)]
    IN  [case EXCEPT !.events = <<event>> \o @, !.updated_at = now]

\* Case.add_event, lines 138-147; event_id is the uuid of the CaseEvent
add_event(case, event_type, description, user, metadata, event_id, now) ==
    LET event == [id |-> event_id,
                  event_type |-> event_type,
                  description |-> description,
                  user |-> user,
                  timestamp |-> now,
                  metadata |-> IF Truthy(metadata) THEN metadata ELSE PyDict(<<>>)]
    IN  [case EXCEPT !.events = Append(@, event), !.updated_at = now]

\* Case(...), lines 109-135: the fields given, the defaults of the others, and
\* __post_init__, which finds events empty
Case(id, title, description, severity, status, assigned_to, tags, playbooks_executed, event_id, now) ==
    LET self == [id |-> id,
                 title |-> title,
                 description |-> description,
                 severity |-> severity,
                 status |-> status,
                 assigned_to |-> assigned_to,
                 tags |-> tags,
                 created_at |-> now,
                 updated_at |-> now,
                 closed_at |-> <<>>,
                 artifacts |-> <<>>,
                 events |-> <<>>,
                 playbooks_executed |-> playbooks_executed]
    IN  IF self.events = <<>>
        THEN add_event(self, "created", "Case created: " \o title, "system",
                       PyNone, event_id, now)
        ELSE self

\* Case.add_artifact, lines 150-164
add_artifact(case, artifact_type, value, description, tags, artifact_id, event_id, now) ==
    LET artifact == [id |-> artifact_id,
                     artifact_type |-> artifact_type,
                     value |-> value,
                     description |-> description,
                     tags |-> tags,
                     added_at |-> now]
    IN  add_event([case EXCEPT !.artifacts = Append(@, artifact)],
                  "artifact_added", "Added " \o artifact_type \o ": " \o value,
                  "system", PyNone, event_id, now)

\* Case.update_status, lines 167-180
update_status(case, new_status, user, event_id, now) ==
    LET old_status == case.status
    IN  add_event([case EXCEPT !.status = new_status,
                               !.updated_at = now,
                               !.closed_at = IF new_status = "closed" THEN <<now>> ELSE @],
                  "status_change",
                  "Status changed from " \o old_status \o " to " \o new_status,
                  user, PyNone, event_id, now)

\* Case.add_comment, lines 183-189
add_comment(case, comment, user, event_id, now) ==
    add_event(case, "comment", comment, user, PyNone, event_id, now)

\* Case.execute_playbook, lines 192-200
execute_playbook(case, playbook_name, result, event_id, now) ==
    add_event([case EXCEPT !.playbooks_executed = Append(@, playbook_name)],
              "playbook_run",
              "Executed playbook: " \o playbook_name \o " - Status: "
                  \o PyToStr(DictGetOr(result, "status", PyNone)),
              "system",
              PyDict(<< <<"playbook", PyStr(playbook_name)>>, <<"result", result>> >>),
              event_id, now)

\* Case.from_dict, lines 222-250, of the dictionary _row_to_case builds, which
\* holds every key; event_id and now are what the constructor's 'created'
\* event is made of
from_dict_case(data, event_id, now) ==
    LET artifact_from_dict(a) ==
            [id |-> a.id,
             artifact_type |-> a.artifact_type,
             value |-> a.value,
             description |-> a.description,
             tags |-> a.tags,
             added_at |-> IF "added_at" \in DOMAIN a THEN ParseNat(a.added_at) ELSE now]
        event_from_dict(e) ==
            [id |-> e.id,
             event_type |-> e.event_type,
             description |-> e.description,
             user |-> e.user,
             timestamp |-> IF "timestamp" \in DOMAIN e THEN ParseNat(e.timestamp) ELSE now,
             metadata |-> e.metadata]
        case == Case(data.id, data.title, data.description, data.severity,
                     data.status, data.assigned_to, data.tags,
                     data.playbooks_executed, event_id, now)
    IN  [case EXCEPT
            !.created_at = IF "created_at" \in DOMAIN data
                           THEN ParseNat(data.created_at) ELSE @,
            !.updated_at = IF "updated_at" \in DOMAIN data
                           THEN ParseNat(data.updated_at) ELSE @,
            !.closed_at = IF data.closed_at # <<>>
                          THEN <<ParseNat(data.closed_at[1])>> ELSE @,
            !.artifacts = [i \in 1..Len(data.artifacts) |->
                              artifact_from_dict(data.artifacts[i])],
            !.events = [i \in 1..Len(data.events) |-> event_from_dict(data.events[i])]]

\* the values _save_case binds to the columns, lines 203-217; Artifact.to_dict
\* and CaseEvent.to_dict (case.py 47-55, 83-91) write the date in ISO form
case_row(case) ==
    LET artifact_to_dict(a) == [a EXCEPT !.added_at = NatStr(@)]
        event_to_dict(e) == [e EXCEPT !.timestamp = NatStr(@)]
    IN  <<case.id, case.title, case.description, case.severity, case.status,
          case.assigned_to,
          <<[json |-> case.tags]>>,
          NatStr(case.created_at),
          NatStr(case.updated_at),
          IF case.closed_at # <<>> THEN <<NatStr(case.closed_at[1])>> ELSE <<>>,
          <<[json |-> [i \in 1..Len(case.artifacts) |->
                         artifact_to_dict(case.artifacts[i])]]>>,
          <<[json |-> [i \in 1..Len(case.events) |->
                         event_to_dict(case.events[i])]]>>,
          <<[json |-> case.playbooks_executed]>> >>

\* a variant of save_case that inserts the row and deletes none
save_case_adding(rows, case) == Append(rows, case_row(case))

\* CaseManager._save_case, lines 193-220: the table after INSERT OR REPLACE of
\* the case's row; id is the PRIMARY KEY, so the row that holds the same id
\* is deleted and the new row inserted
save_case(rows, case) ==
    Append(SelectSeq(rows, LAMBDA r : r[1] # case.id), case_row(case))

\* CaseManager._row_to_case, lines 223-241; row[k] of the source is row[k + 1]
row_to_case(row, event_id, now) ==
    LET loads(column) == IF column # <<>> THEN column[1].json ELSE <<>>
    IN  from_dict_case([id |-> row[1],
                        title |-> row[2],
                        description |-> row[3],
                        severity |-> row[4],
                        status |-> row[5],
                        assigned_to |-> row[6],
                        tags |-> loads(row[7]),
                        created_at |-> row[8],
                        updated_at |-> row[9],
                        closed_at |-> row[10],
                        artifacts |-> loads(row[11]),
                        events |-> loads(row[12]),
                        playbooks_executed |-> loads(row[13])],
                       event_id, now)

\* no call was made yet
NoCall ==
    [op |-> "", arg |-> "", idx |-> 0,
     before |-> Case("", "", "", "", "", <<>>, <<>>, <<>>, "", 0),
     query |-> [status |-> <<>>, severity |-> <<>>, limit |-> 0],
     rows |-> <<>>, value |-> <<>>, deleted |-> FALSE, raised |-> NoExc]

MaxCalls == 4

\* CaseManager.create_case, lines 54-70: status, assigned_to and
\* playbooks_executed are the defaults of Case
CreateCase ==
    /\ clock <= MaxCalls
    /\ \E severity \in {"medium", "high"} :
          LET case == Case("u" \o NatStr(uuids + 1), "Phish", "", severity, "open",
                           <<>>, <<>>, <<>>, "u" \o NatStr(uuids + 2), clock)
          IN  /\ held' = Append(held, case)
              /\ db' = save_case(db, case)
              /\ last' = [NoCall EXCEPT !.op = "create_case", !.arg = case.id,
                                        !.idx = Len(held) + 1, !.rows = db,
                                        !.value = <<case>>]
    /\ clock' = clock + 1
    /\ uuids' = uuids + 2
    /\ UNCHANGED <<integration_manager, context, execution_log, pc, playbook, stack,
                   current, exc, report, executed, gateway_calls, before, evaluated,
                   returned, retired, pieces, text, resolved>>

\* CaseManager.get_case, lines 73-84, of the id of a case the caller holds or
\* of an id no case has
GetCase ==
    /\ clock <= MaxCalls
    /\ \E case_id \in {held[i].id : i \in 1..Len(held)} \cup {"missing"} :
          LET found == SelectSeq(db, LAMBDA r : r[1] = case_id)
          IN  last' = [NoCall EXCEPT
                          !.op = "get_case", !.arg = case_id, !.rows = db,
                          !.value = IF found # <<>>
                                    THEN <<row_to_case(found[1], "", clock)>>
                                    ELSE <<>>]
    /\ clock' = clock + 1
    /\ UNCHANGED <<held, db, uuids>>
    /\ UNCHANGED <<integration_manager, context, execution_log, pc, playbook, stack,
                   current, exc, report, executed, gateway_calls, before, evaluated,
                   returned, retired, pieces, text, resolved>>

\* CaseManager.list_cases, lines 87-110.  columns is the table of
\* _ensure_database, lines 33-47; the statement names a column in ORDER BY,
\* and sqlite3 raises OperationalError for a name the table has not.  The
\* text of a date orders as the date does.
ListCases ==
    /\ clock <= MaxCalls
    /\ \E status \in {<<>>, <<"open">>}, severity \in {<<>>, <<"high">>},
          limit \in {1, 100} :
          LET columns == <<"id", "title", "description", "severity", "status",
                           "assigned_to", "tags", "created_at", "updated_at",
                           "closed_at", "artifacts", "events", "playbooks_executed">>
              order_by == "created_by"
              rows == SelectSeq(db, LAMBDA r :
                          /\ status # <<>> => r[5] = status[1]
                          /\ severity # <<>> => r[4] = severity[1])
              n == Len(rows)
              k == CHOOSE c \in 1..Len(columns) : columns[c] = order_by
              order == CHOOSE f \in [1..n -> 1..n] :
                          /\ \A i, j \in 1..n : f[i] = f[j] => i = j
                          /\ \A i \in 1..(n - 1) :
                                ParseNat(rows[f[i]][k]) >= ParseNat(rows[f[i + 1]][k])
              m == IF limit < n THEN limit ELSE n
          IN  IF \A c \in 1..Len(columns) : columns[c] # order_by
              THEN last' = [NoCall EXCEPT
                               !.op = "list_cases", !.rows = db,
                               !.query = [status |-> status, severity |-> severity,
                                          limit |-> limit],
                               !.raised = [cls |-> "OperationalError",
                                           msg |-> "no such column: " \o order_by]]
              ELSE last' = [NoCall EXCEPT
                               !.op = "list_cases", !.rows = db,
                               !.query = [status |-> status, severity |-> severity,
                                          limit |-> limit],
                               !.value = [i \in 1..m |->
                                             row_to_case(rows[order[i]], "", clock)]]
    /\ clock' = clock + 1
    /\ UNCHANGED <<held, db, uuids>>
    /\ UNCHANGED <<integration_manager, context, execution_log, pc, playbook, stack,
                   current, exc, report, executed, gateway_calls, before, evaluated,
                   returned, retired, pieces, text, resolved>>

\* CaseManager.update_case, lines 113-116, of a case the caller holds
UpdateCase ==
    /\ clock <= MaxCalls
    /\ \E i \in 1..Len(held) :
          LET case == [held[i] EXCEPT !.updated_at = clock]
          IN  /\ held' = [held EXCEPT ![i] = case]
              /\ db' = save_case(db, case)
              /\ last' = [NoCall EXCEPT !.op = "update_case", !.arg = case.id,
                                        !.idx = i, !.before = held[i], !.rows = db]
    /\ clock' = clock + 1
    /\ UNCHANGED uuids
    /\ UNCHANGED <<integration_manager, context, execution_log, pc, playbook, stack,
                   current, exc, report, executed, gateway_calls, before, evaluated,
                   returned, retired, pieces, text, resolved>>

\* CaseManager.delete_case, lines 119-130; cursor.rowcount is the number of
\* rows the statement deleted
DeleteCase ==
    /\ clock <= MaxCalls
    /\ \E case_id \in {held[i].id : i \in 1..Len(held)} \cup {"missing"} :
          /\ db' = SelectSeq(db, LAMBDA r : r[1] # case_id)
          /\ last' = [NoCall EXCEPT !.op = "delete_case", !.arg = case_id,
                                    !.rows = db,
                                    !.deleted = (Len(db) - Len(db') > 0)]
    /\ clock' = clock + 1
    /\ UNCHANGED <<held, uuids>>
    /\ UNCHANGED <<integration_manager, context, execution_log, pc, playbook, stack,
                   current, exc, report, executed, gateway_calls, before, evaluated,
                   returned, retired, pieces, text, resolved>>

\* case.add_event(...) on a case the caller holds
AddEvent ==
    /\ clock <= MaxCalls
    /\ \E i \in 1..Len(held) :
          /\ held' = [held EXCEPT ![i] =
                          add_event(@, "assigned", "Assigned to alice", "bob", PyNone,
                                    "u" \o NatStr(uuids + 1), clock)]
          /\ last' = [NoCall EXCEPT !.op = "add_event", !.idx = i, !.before = held[i],
                                    !.rows = db]
    /\ clock' = clock + 1
    /\ uuids' = uuids + 1
    /\ UNCHANGED db
    /\ UNCHANGED <<integration_manager, context, execution_log, pc, playbook, stack,
                   current, exc, report, executed, gateway_calls, before, evaluated,
                   returned, retired, pieces, text, resolved>>

\* case.add_artifact(...) on a case the caller holds; tags is not given
AddArtifact ==
    /\ clock <= MaxCalls
    /\ \E i \in 1..Len(held) :
          /\ held' = [held EXCEPT ![i] =
                          add_artifact(@, "ip", "8.8.8.8", "", <<>>,
                                       "u" \o NatStr(uuids + 1),
                                       "u" \o NatStr(uuids + 2), clock)]
          /\ last' = [NoCall EXCEPT !.op = "add_artifact", !.idx = i,
                                    !.before = held[i], !.rows = db]
    /\ clock' = clock + 1
    /\ uuids' = uuids + 2
    /\ UNCHANGED db
    /\ UNCHANGED <<integration_manager, context, execution_log, pc, playbook, stack,
                   current, exc, report, executed, gateway_calls, before, evaluated,
                   returned, retired, pieces, text, resolved>>

\* case.update_status(new_status, user) on a case the caller holds, with each
\* value of Status, lines 18-23
UpdateStatus ==
    /\ clock <= MaxCalls
    /\ \E i \in 1..Len(held),
          new_status \in {"open", "investigating", "resolved", "closed"} :
          /\ held' = [held EXCEPT ![i] =
                          update_status(@, new_status, "alice",
                                        "u" \o NatStr(uuids + 1), clock)]
          /\ last' = [NoCall EXCEPT !.op = "update_status", !.arg = new_status,
                                    !.idx = i, !.before = held[i], !.rows = db]
    /\ clock' = clock + 1
    /\ uuids' = uuids + 1
    /\ UNCHANGED db
    /\ UNCHANGED <<integration_manager, context, execution_log, pc, playbook, stack,
                   current, exc, report, executed, gateway_calls, before, evaluated,
                   returned, retired, pieces, text, resolved>>

\* case.add_comment(comment, user) on a case the caller holds
AddComment ==
    /\ clock <= MaxCalls
    /\ \E i \in 1..Len(held) :
          /\ held' = [held EXCEPT ![i] =
                          add_comment(@, "looks bad", "alice",
                                      "u" \o NatStr(uuids + 1), clock)]
          /\ last' = [NoCall EXCEPT !.op = "add_comment", !.idx = i,
                                    !.before = held[i], !.rows = db]
    /\ clock' = clock + 1
    /\ uuids' = uuids + 1
    /\ UNCHANGED db
    /\ UNCHANGED <<integration_manager, context, execution_log, pc, playbook, stack,
                   current, exc, report, executed, gateway_calls, before, evaluated,
                   returned, retired, pieces, text, resolved>>

\* case.execute_playbook(name, result) on a case the caller holds, result being
\* a report of execute or a dictionary without status
ExecutePlaybook ==
    /\ clock <= MaxCalls
    /\ \E i \in 1..Len(held),
          result \in {PyDict(<< <<"status", PyStr("SUCCESS")>> >>), PyDict(<<>>)} :
          /\ held' = [held EXCEPT ![i] =
                          execute_playbook(@, "triage", result,
                                           "u" \o NatStr(uuids + 1), clock)]
          /\ last' = [NoCall EXCEPT !.op = "execute_playbook", !.idx = i,
                                    !.before = held[i], !.rows = db]
    /\ clock' = clock + 1
    /\ uuids' = uuids + 1
    /\ UNCHANGED db
    /\ UNCHANGED <<integration_manager, context, execution_log, pc, playbook, stack,
                   current, exc, report, executed, gateway_calls, before, evaluated,
                   returned, retired, pieces, text, resolved>>

-----------------------------------------------------------------------------
(* The playbooks, inputs and engines execute is run with.  Every action of   *)
(* a playbook gets its own id: a<i> for the i-th root action, and the id of  *)
(* its parent followed by t<j> or f<j> for the j-th child of a branch.       *)

\* the longest root action list
MaxActions == 3

LogHello(id) ==
    Leaf(id, "log", << <<"message", PyStr("hello {{inputs.name}}")>> >>, PyNone)

SetX(id, n) ==
    Leaf(id, "set_variable", << <<"name", PyStr("X")>>, <<"value", PyInt(n)>> >>, PyNone)

Boom(id) ==
    Leaf(id, "python_code",
         << <<"code", PyCode(<<RaiseStmt("ValueError", "boom")>>)>> >>, PyNone)

\* raise RuntimeError(): an exception whose message is empty
Halt(id) ==
    Leaf(id, "python_code",
         << <<"code", PyCode(<<RaiseStmt("RuntimeError", "")>>)>> >>, PyNone)

Exit(id) ==
    Leaf(id, "python_code",
         << <<"code", PyCode(<<RaiseStmt("SystemExit", "bye")>>)>> >>, PyNone)

Calc(id, out) ==
    Leaf(id, "python_code",
         << <<"code", PyCode(<<Assign("result", Plus("X", 1))>>)>> >>, PyStr(out))

Email(id) ==
    Leaf(id, "email", << <<"to", PyStr("soc@example.org")>> >>, PyNone)

CheckIp(id) ==
    Leaf(id, "api_call",
         << <<"integration", PyStr("virustotal")>>,
            <<"method", PyStr("check_ip")>>,
            <<"parameters", PyDict(<< <<"ip", PyStr("{{inputs.ip}}")>>,
                                      <<"limit", PyInt(5)>> >>)>> >>,
         PyStr("vt"))

\* an integration the manager has not registered
Shodan(id) ==
    Leaf(id, "api_call",
         << <<"integration", PyStr("shodan")>>,
            <<"method", PyStr("host")>>,
            <<"parameters", PyDict(<< <<"ip", PyStr("{{inputs.ip}}")>> >>)>> >>,
         PyStr("sh"))

\* no output variable
Ping(id) ==
    Leaf(id, "api_call",
         << <<"integration", PyStr("virustotal")>>,
            <<"method", PyStr("check_ip")>>,
            <<"parameters", PyDict(<< <<"ip", PyStr("{{inputs.ip}}")>> >>)>> >>,
         PyNone)

Cond(id, condition, if_true, if_false) ==
    Action(id, "condition", PyDict(<<>>), PyNone, condition, if_true, if_false)

\* both branches populated, a condition nested in the true branch
Triage(id) ==
    Cond(id, PyStr("X > 0"),
         ActionList(<<Calc(id \o "t1", "X"),
                      Cond(id \o "t2", PyStr("X == 2"),
                           ActionList(<<Email(id \o "t2t1"), LogHello(id \o "t2t2")>>),
                           NoList),
                      LogHello(id \o "t3")>>),
         ActionList(<<Halt(id \o "f1"), LogHello(id \o "f2")>>))

\* no if_true branch
Escalate(id) ==
    Cond(id, PyStr("X < 1"), NoList,
         ActionList(<<Calc(id \o "f1", "X"), LogHello(id \o "f2")>>))

\* a templated condition, an empty if_false branch
Flag(id) ==
    Cond(id, PyStr("{{X}}"), ActionList(<<LogHello(id \o "t1")>>), ActionList(<<>>))

\* an assignment expression in the condition
Enrich(id) ==
    Cond(id, PyStr("(Y := 1) > 0"),
         ActionList(<<Shodan(id \o "t1"), Ping(id \o "t2"), LogHello(id \o "t3")>>),
         NoList)

MkAction(k, id) ==
    CASE k = 1 -> LogHello(id)
      [] k = 2 -> SetX(id, 1)
      [] k = 3 -> SetX(id, 0)
      [] k = 4 -> Boom(id)
      [] k = 5 -> Exit(id)
      [] k = 6 -> Email(id)
      [] k = 7 -> CheckIp(id)
      [] k = 8 -> Triage(id)
      [] k = 9 -> Escalate(id)
      [] k = 10 -> Flag(id)
      [] k = 11 -> Enrich(id)
      [] k = 12 -> Leaf(id, "set_variable",
                        << <<"name", PyStr("result")>>, <<"value", PyInt(9)>> >>, PyNone)
      [] k = 13 -> Leaf(id, "python_code",
                        << <<"code", PyCode(<<Assign("y", Const(PyInt(1)))>>)>> >>,
                        PyStr("out"))
      [] k = 14 -> Leaf(id, "python_code",
                        << <<"code", PyCode(<<Assign("y", Plus("X", 1))>>)>> >>,
                        PyStr("out"))

Kinds == 1..10

\* the kinds of the root actions of a playbook, in order
RootKinds == UNION { [1..n -> Kinds] : n \in 0..MaxActions }

Playbooks ==
    { Playbook("triage", [i \in 1..Len(ks) |-> MkAction(ks[i], "a" \o Digit(i))]) :
        ks \in RootKinds }

InputsSet ==
    { PyNone,
      PyDict(<< <<"name", PyStr("world")>>, <<"ip", PyStr("8.8.8.8")>> >>) }

\* no integration manager; virustotal without and with an API key
Managers ==
    { PyNone,
      Manager(PyDict(<< <<"virustotal", VirusTotal(PyNone)>> >>)),
      Manager(PyDict(<< <<"virustotal", VirusTotal(PyStr("k3y"))>> >>)) }

-----------------------------------------------------------------------------
(* One call of execute on a new engine *)

Init ==
    /\ integration_manager \in Managers
    /\ context = PyDict(<<>>)
    /\ execution_log = <<>>
    /\ pc = "idle"
    /\ playbook = Playbook("", <<>>)
    /\ stack = <<>>
    /\ current = NoAction
    /\ exc = NoExc
    /\ report = NoReport
    /\ executed = <<>>
    /\ gateway_calls = <<>>
    /\ before = [context |-> PyDict(<<>>), execution_log |-> <<>>, gateway_calls |-> <<>>]
    /\ evaluated = <<>>
    /\ returned = <<>>
    /\ retired = <<>>
    /\ pieces = <<>>
    /\ text = PyNone
    /\ resolved = PyNone
    /\ held = <<>>
    /\ db = <<>>
    /\ last = NoCall
    /\ clock = 1
    /\ uuids = 0

\* a caller hands a playbook and inputs to execute
Call ==
    /\ pc = "idle"
    /\ \E pb \in Playbooks, inputs \in InputsSet : Execute(pb, inputs)

Next ==
    \/ Call
    \/ ExecuteAction
    \/ ActionLog
    \/ ActionPythonCode
    \/ ActionCondition
    \/ ActionSetVariable
    \/ ActionApiCall
    \/ ApiCallReturn
    \/ ActionUnknown
    \/ ExecuteReturn
    \/ ExecuteExcept
    \/ ExecutePropagate

Spec == Init /\ [][Next]_vars


-----------------------------------------------------------------------------
(* _resolve_variables on its own, and inside the two handlers that store or
   send what it returns: one action, dispatched with a template *)

MaxPieces == 2

\* paths of tokens: bound, bound to None, nested, absent at each depth, and
\* through a value that is no mapping
Paths ==
    { <<"X">>, <<"inputs">>, <<"inputs", "x">>, <<"inputs", "n">>,
      <<"inputs", "nothing">>, <<"inputs", "nested", "k">>, <<"inputs", "x", "k">>,
      <<"missing">>, <<"inputs", "missing">>, <<"missing", "x">> }

Literal(s) == [kind |-> "lit", s |-> s, path |-> <<>>, pad |-> ""]

\* the token {{path}}, pad being the blanks written inside the braces
Token(path, pad) == [kind |-> "tok", s |-> "", path |-> path, pad |-> pad]

RECURSIVE Join(_, _)
Join(parts, sep) ==
    IF parts = <<>> THEN ""
    ELSE IF Len(parts) = 1 THEN Head(parts)
    ELSE Head(parts) \o sep \o Join(Tail(parts), sep)

TokenText(p) == "{{" \o p.pad \o Join(p.path, ".") \o p.pad \o "}}"

PieceText(p) == IF p.kind = "lit" THEN p.s ELSE TokenText(p)

RECURSIVE Render(_)
Render(ps) == IF ps = <<>> THEN "" ELSE PieceText(Head(ps)) \o Render(Tail(ps))

PieceSet ==
    {Literal(s) : s \in {"ip=", " ", "a"}}
        \cup {Token(path, pad) : path \in Paths, pad \in {"", " "}}

PieceSeqs == UNION { [1..n -> PieceSet] : n \in 0..MaxPieces }

\* templates that are no strings, two of them holding a token
NonStrings ==
    { PyInt(5), PyBool(TRUE), PyNone,
      PyList(<<PyStr("{{X}}")>>),
      PyDict(<< <<"k", PyStr("{{X}}")>> >>) }

ResolverContexts ==
    { PyDict(<< <<"inputs", PyDict(<< <<"x", PyStr("v")>>,
                                      <<"n", PyInt(7)>>,
                                      <<"nothing", PyNone>>,
                                      <<"nested", PyDict(<< <<"k", PyStr("deep")>> >>)>> >>)>>,
                <<"X", PyInt(1)>> >>),
      PyDict(<< <<"inputs", PyDict(<<>>)>> >>),
      PyDict(<< <<"inputs", PyDict(<< <<"x", PyStr("{{X}}")>>,
                                      <<"n", PyInt(0 - 3)>>,
                                      <<"nested", PyStr("flat")>> >>)>>,
                <<"X", PyBool(TRUE)>> >>) }

\* set_variable of the template
SetOut(tmpl) ==
    Leaf("r1", "set_variable", << <<"name", PyStr("out")>>, <<"value", tmpl>> >>, PyNone)

\* set_variable of the template under a name two of the contexts bind
Rebind(tmpl) ==
    Leaf("r1", "set_variable", << <<"name", PyStr("X")>>, <<"value", tmpl>> >>, PyNone)

\* log of the template
Say(tmpl) ==
    Leaf("r1", "log", << <<"message", tmpl>> >>, PyNone)

\* api_call with the template as a parameter
Lookup(tmpl) ==
    Leaf("r1", "api_call",
         << <<"integration", PyStr("virustotal")>>,
            <<"method", PyStr("check_ip")>>,
            <<"parameters", PyDict(<< <<"ip", PyStr("8.8.8.8")>>,
                                      <<"limit", tmpl>> >>)>> >>,
         PyStr("vt"))

InitResolve ==
    /\ integration_manager = Manager(PyDict(<< <<"virustotal", VirusTotal(PyNone)>> >>))
    /\ context \in ResolverContexts
    /\ \/ /\ pieces \in PieceSeqs
          /\ text = PyStr(Render(pieces))
       \/ /\ pieces = <<>>
          /\ text \in NonStrings
    /\ current \in {SetOut(text), Rebind(text), Say(text), Lookup(text)}
    /\ playbook = Playbook("resolve", <<current>>)
    /\ before = [context |-> context,
                 execution_log |-> log(<<>>, "Starting playbook: resolve", "INFO"),
                 gateway_calls |-> <<>>]
    /\ execution_log = log(before.execution_log,
                           "Executing action: " \o current.id
                               \o " (type: " \o current.type \o ")", "INFO")
    /\ pc = "resolve"
    /\ stack = <<>>
    /\ exc = NoExc
    /\ report = NoReport
    /\ executed = <<current.id>>
    /\ gateway_calls = <<>>
    /\ evaluated = <<>>
    /\ returned = <<>>
    /\ retired = <<>>
    /\ resolved = PyNone
    /\ held = <<>>
    /\ db = <<>>
    /\ last = NoCall
    /\ clock = 1
    /\ uuids = 0

\* _resolve_variables(text) in the context, ahead of the handler
Resolve ==
    /\ pc = "resolve"
    /\ resolved' = resolve_variables(context, text)
    /\ pc' = "dispatch"
    /\ UNCHANGED <<integration_manager, context, execution_log, playbook, stack,
                   current, exc, report, executed, gateway_calls, before, evaluated,
                   returned, retired, pieces, text, held, db, last, clock, uuids>>

NextResolve ==
    \/ Resolve
    \/ ActionLog
    \/ ActionSetVariable
    \/ ActionApiCall
    \/ ApiCallReturn

SpecResolve == InitResolve /\ [][NextResolve]_vars

-----------------------------------------------------------------------------
(* One engine instance, execute called on it again and again, as             *)
(* src/test_engine.py does: a call is made when no call is under way, the    *)
(* last one having returned a report or let an exception through.            *)

MaxRuns == 2

\* the root kinds of the playbooks an instance is given
ReuseKinds ==
    { <<11>>, <<2, 9>>, <<9>>, <<7, 1>>, <<2, 4>>, <<5>>, <<6>>,
      <<12, 13>>, <<13>>, <<12, 14>> }

ReusePlaybooks ==
    { Playbook("triage", [i \in 1..Len(ks) |-> MkAction(ks[i], "a" \o Digit(i))]) :
        ks \in ReuseKinds }

CallAgain ==
    /\ pc \in {"idle", "done", "raised"}
    /\ Len(retired) < MaxRuns
    /\ \E pb \in ReusePlaybooks, inputs \in InputsSet : Execute(pb, inputs)

NextReuse ==
    \/ CallAgain
    \/ ExecuteAction
    \/ ActionLog
    \/ ActionPythonCode
    \/ ActionCondition
    \/ ActionSetVariable
    \/ ActionApiCall
    \/ ApiCallReturn
    \/ ActionUnknown
    \/ ExecuteReturn
    \/ ExecuteExcept
    \/ ExecutePropagate

SpecReuse == Init /\ [][NextReuse]_vars

\* execute is a sequential program: between its call and its return, or the
\* exception that leaves it, its next step is taken.  Every step of a run moves
\* pc; the caller is not obliged to call again.
SpecLive ==
    SpecReuse /\ WF_pc(/\ pc \in {"walk", "dispatch", "calling", "except"}
                        /\ pc' \in {"walk", "dispatch", "calling", "except",
                                   "done", "raised"})

-----------------------------------------------------------------------------
(* load_playbook and execute: a document, as yaml.safe_load returns it, is   *)
(* made a Playbook by Playbook.from_dict and handed to execute.              *)

\* Playbook._parse_action: an absent id or type is '', absent parameters {},
\* an absent output_variable or condition None; the branches are parsed for an
\* action of type condition, where the document has them
RECURSIVE parse_action(_)
parse_action(action_data) ==
    LET type == DictGetOr(action_data, "type", PyStr("")).s
        branch(key) ==
            IF type = "condition" /\ DictHas(action_data, key)
            THEN LET list == DictGet(action_data, key).items
                 IN  ActionList([i \in 1..Len(list) |-> parse_action(list[i][2])])
            ELSE NoList
    IN  Action(DictGetOr(action_data, "id", PyStr("")).s,
               type,
               DictGetOr(action_data, "parameters", PyDict(<<>>)),
               DictGetOr(action_data, "output_variable", PyNone),
               DictGetOr(action_data, "condition", PyNone),
               branch("if_true"), branch("if_false"))

\* Playbook.from_dict
from_dict(data) ==
    LET playbook_data == DictGetOr(data, "playbook", PyDict(<<>>))
        list == DictGetOr(playbook_data, "actions", PyList(<<>>)).items
    IN  Playbook(DictGetOr(playbook_data, "name", PyStr("Unnamed Playbook")).s,
                 [i \in 1..Len(list) |-> parse_action(list[i][2])])

MaxDocActions == 2

\* the documents of actions: a log, a set_variable, a log with no type, a log
\* with no id, a condition with no condition field, and a condition that has
\* one, with a child that has no id and a child that has no type
ActionDocuments ==
    LET message == <<"parameters", PyDict(<< <<"message", PyStr("hello {{inputs.name}}")>> >>)>>
        log_ == PyDict(<< <<"id", PyStr("a1")>>, <<"type", PyStr("log")>>, message >>)
        set_ == PyDict(<< <<"id", PyStr("a2")>>, <<"type", PyStr("set_variable")>>,
                          <<"parameters", PyDict(<< <<"name", PyStr("X")>>,
                                                    <<"value", PyInt(1)>> >>)>> >>)
        notype == PyDict(<< <<"id", PyStr("a3")>>, message >>)
        noid == PyDict(<< <<"type", PyStr("log")>>, message >>)
    IN  { log_, set_, notype, noid,
          PyDict(<< <<"id", PyStr("a5")>>, <<"type", PyStr("condition")>>,
                    <<"if_true", PyList(<<log_>>)>> >>),
          PyDict(<< <<"id", PyStr("a6")>>, <<"type", PyStr("condition")>>,
                    <<"condition", PyStr("X > 0")>>,
                    <<"if_true", PyList(<<noid, notype>>)>>,
                    <<"if_false", PyList(<<>>)>> >>) }

Documents ==
    { PyDict(<<>>) }
        \cup { PyDict(<< <<"playbook", PyDict(<< <<"name", PyStr("triage")>>,
                                                 <<"actions", PyList(list)>> >>)>> >>) :
                 list \in UNION { [1..n -> ActionDocuments] : n \in 0..MaxDocActions } }

\* load_playbook, after yaml.safe_load: no document of these is refused
LoadPlaybook ==
    /\ pc = "idle"
    /\ \E data \in Documents : playbook' = from_dict(data)
    /\ pc' = "loaded"
    /\ UNCHANGED <<integration_manager, context, execution_log, stack, current, exc,
                   report, executed, gateway_calls, before, evaluated,
                   returned, retired, pieces, text, resolved, held, db, last, clock, uuids>>

\* the caller hands the loaded playbook to execute
CallLoaded ==
    /\ pc = "loaded"
    /\ \E inputs \in InputsSet : Execute(playbook, inputs)

NextLoad ==
    \/ LoadPlaybook
    \/ CallLoaded
    \/ ExecuteAction
    \/ ActionLog
    \/ ActionCondition
    \/ ActionSetVariable
    \/ ActionUnknown
    \/ ExecuteReturn
    \/ ExecuteExcept

SpecLoad == Init /\ [][NextLoad]_vars

-----------------------------------------------------------------------------
(* A caller of the CaseManager and of the cases it holds: any sequence of    *)
(* MaxCalls calls, one at a time.                                            *)

NextCase ==
    \/ CreateCase
    \/ GetCase
    \/ ListCases
    \/ UpdateCase
    \/ DeleteCase
    \/ AddEvent
    \/ AddArtifact
    \/ UpdateStatus
    \/ AddComment
    \/ ExecutePlaybook

SpecCase == Init /\ [][NextCase]_vars

-----------------------------------------------------------------------------
(* The action tree of the playbook under execution *)

\* the actions of a list and of everything below it, depth first, left to right
RECURSIVE Preorder(_)
Preorder(actions) ==
    IF actions = <<>> THEN <<>>
    ELSE <<Head(actions)>> \o Preorder(Head(actions).if_true.actions)
                           \o Preorder(Head(actions).if_false.actions)
                           \o Preorder(Tail(actions))

Nodes == Preorder(playbook.actions)

\* identifiers are unique within a playbook of the catalogue
NodeOf(id) == LET nodes == Nodes IN nodes[CHOOSE i \in 1..Len(nodes) : nodes[i].id = id]

\* the lists of siblings of the tree: the root list and every branch
SiblingLists ==
    LET nodes == Nodes
    IN  {playbook.actions} \cup {nodes[i].if_true.actions : i \in 1..Len(nodes)}
                           \cup {nodes[i].if_false.actions : i \in 1..Len(nodes)}

Ids(actions) == [i \in 1..Len(actions) |-> actions[i].id]

WasExecuted(id) == \E i \in 1..Len(executed) : executed[i] = id

\* the entry line 63 writes for an action
ExecutingEntry(action) ==
    LogEntry("INFO", "Executing action: " \o action.id \o " (type: " \o action.type \o ")")

IsExecutingEntry(entry) == StartsWith(entry.message, "Executing action: ")

ExecutingEntries(entries) == SelectSeq(entries, IsExecutingEntry)

IsPrefix(s, t) == Len(s) <= Len(t) /\ s = SubSeq(t, 1, Len(s))

Finished == pc = "done"

Failed == Finished /\ report.status = "FAILED"

-----------------------------------------------------------------------------
(* Properties of execute *)

\* C1 (fail-fast): once an action has raised, no further action is executed
\* and no further 'Executing action' entry is written; in particular the log
\* holds no such entry for any action after the failing one in the tree: its
\* later siblings, and the remaining children and later siblings of every
\* enclosing condition.
C1_FailFast ==
    /\ [](exc # NoExc =>
            LET nodes == Nodes
                failing == CHOOSE i \in 1..Len(nodes) : nodes[i].id = current.id
            IN  \A i \in failing + 1 .. Len(nodes) :
                    /\ ~WasExecuted(nodes[i].id)
                    /\ \A k \in 1..Len(execution_log) :
                           execution_log[k] # ExecutingEntry(nodes[i]))
    /\ [][exc # NoExc =>
            /\ executed' = executed
            /\ ExecutingEntries(execution_log') = ExecutingEntries(execution_log)]_vars

\* a run that failed two conditions deep, leaving a later sibling pending in
\* the inner branch, in the outer branch and in the root list
C1_Witness ==
    /\ Failed
    /\ current.id = "a2t2t1"
    /\ Ids(playbook.actions) = <<"a1", "a2", "a3">>
    /\ executed = <<"a1", "a2", "a2t1", "a2t2", "a2t2t1">>

\* C2 (execute never raises): every run ends with a report, and when an action
\* raised the report is FAILED and its error is the message of the exception.
C2_NeverRaises ==
    /\ pc # "raised"
    /\ (Finished /\ exc # NoExc) =>
           (report.status = "FAILED" /\ report.error = PyStr(exc.msg))

\* C3 (failure keeps earlier bindings): the context of a FAILED report is the
\* context the completed actions had built when the failing action was
\* entered; no binding is dropped or changed by the failure.
C3_FailedContextKeepsBindings ==
    Failed => report.context = before.context

\* [set X=1, raise, set X=0] fails at the second action with X == 1
C3_Witness ==
    /\ Failed
    /\ Len(playbook.actions) = 3
    /\ playbook.actions[1].type = "set_variable"
    /\ playbook.actions[3].type = "set_variable"
    /\ executed = <<"a1", "a2">>
    /\ report.error = PyStr("boom")
    /\ DictGet(report.context, "X") = PyInt(1)
    /\ DictGet(playbook.actions[3].parameters, "value") = PyInt(0)

\* C4 (two outcomes): a returned report has status SUCCESS or FAILED, SUCCESS
\* exactly when no executed action raised, and its error is None exactly when
\* the status is SUCCESS.
C4_SuccessOrFailed ==
    Finished =>
        /\ report.status \in {"SUCCESS", "FAILED"}
        /\ report.status = "SUCCESS" <=> exc = NoExc
        /\ report.error = PyNone <=> report.status = "SUCCESS"

\* a run that failed after other actions completed, the exception's message
\* being empty
C4_Witness ==
    /\ Failed
    /\ Len(executed) > 1
    /\ exc.msg = ""
    /\ report.error = PyStr("")

\* the children of a condition that were executed, in the order of execution
ChildrenExecuted(action) ==
    SelectSeq(executed,
              LAMBDA id : \E k \in 1..Len(action.if_true.actions) \cup
                                   1..Len(action.if_false.actions) :
                              \/ /\ k <= Len(action.if_true.actions)
                                 /\ action.if_true.actions[k].id = id
                              \/ /\ k <= Len(action.if_false.actions)
                                 /\ action.if_false.actions[k].id = id)

\* the branch that matches a result: if_true for a true result,
\* if_false for a false one, nothing where that branch is absent
Selected(action, result) ==
    IF Truthy(result) THEN Ids(action.if_true.actions)
    ELSE Ids(action.if_false.actions)

\* C5 (branch selection): for every condition whose expression was evaluated,
\* the children executed are children of the branch matching the result, in
\* declared order from its first, and all of them once the run has succeeded;
\* no child of the other branch is executed; where the matching branch is
\* absent or empty no child is executed, and evaluating the condition raised
\* nothing.
C5_BranchSelection ==
    /\ \A e \in 1..Len(evaluated) :
           LET action == NodeOf(evaluated[e][1])
               chosen == Selected(action, evaluated[e][2])
               children == ChildrenExecuted(action)
           IN  /\ IsPrefix(children, chosen)
               /\ (Finished /\ report.status = "SUCCESS") => children = chosen
    /\ \A e \in 1..Len(evaluated) :
           exc # NoExc => current.id # evaluated[e][1]

\* a successful run with a true condition whose three if_true children ran,
\* a false condition whose two if_false children ran, and a false condition
\* that has an if_true list and no if_false
C5_Witness ==
    /\ Finished
    /\ report.status = "SUCCESS"
    /\ \E e \in 1..Len(evaluated) :
           /\ Truthy(evaluated[e][2])
           /\ ListTruthy(NodeOf(evaluated[e][1]).if_false)
           /\ Len(ChildrenExecuted(NodeOf(evaluated[e][1]))) = 3
    /\ \E e \in 1..Len(evaluated) :
           /\ ~Truthy(evaluated[e][2])
           /\ Len(ChildrenExecuted(NodeOf(evaluated[e][1]))) = 2
    /\ \E e \in 1..Len(evaluated) :
           /\ ~Truthy(evaluated[e][2])
           /\ ~NodeOf(evaluated[e][1]).if_false.present
           /\ ListTruthy(NodeOf(evaluated[e][1]).if_true)

\* C6 (announced first, in pre-order): the 'Executing action' entries of the
\* log are, in order, the INFO entries of the executed actions, each naming
\* its id and kind; when an action is dispatched its entry is the last of the
\* log and neither the context nor the gateway has been touched since the
\* entry was written; the executed actions follow the tree's depth-first,
\* left-to-right pre-order, a child after its condition and a sibling after
\* the siblings before it.
C6_AnnouncedInPreorder ==
    LET nodes == Nodes
        \* where in the pre-order the i-th executed action stands
        at == [i \in 1..Len(executed) |->
                  CHOOSE k \in 1..Len(nodes) : nodes[k].id = executed[i]]
        children(node) == node.if_true.actions \o node.if_false.actions
    IN  /\ ExecutingEntries(execution_log) =
               [i \in 1..Len(executed) |-> ExecutingEntry(nodes[at[i]])]
        /\ pc = "dispatch" =>
               /\ execution_log = Append(before.execution_log, ExecutingEntry(current))
               /\ context = before.context
               /\ gateway_calls = before.gateway_calls
        /\ \A i \in 2..Len(executed) : at[i - 1] < at[i]
        /\ \A i \in 1..Len(executed) :
               \A k \in 1..Len(children(nodes[at[i]])) :
                   WasExecuted(children(nodes[at[i]])[k].id) =>
                       \E j \in i + 1 .. Len(executed) :
                           executed[j] = children(nodes[at[i]])[k].id
        /\ \A n \in 1..Len(nodes) :
               \A k \in 1..Len(children(nodes[n])) :
                   WasExecuted(children(nodes[n])[k].id) => WasExecuted(nodes[n].id)
        /\ \A l \in SiblingLists :
               \A k \in 2..Len(l) : WasExecuted(l[k].id) => WasExecuted(l[k - 1].id)

\* an action two conditions deep is being dispatched after a gateway call and
\* context changes of earlier actions
C6_Witness ==
    /\ pc = "dispatch"
    /\ current.id = "a3t2t1"
    /\ Len(gateway_calls) = 1
    /\ DictHas(context, "vt")
    /\ Len(executed) = 6

\* whether a path leads, segment by segment through nested mappings, to a
\* value, and the value
RECURSIVE Follow(_, _)
Follow(value, path) ==
    IF path = <<>> THEN [found |-> TRUE, value |-> value]
    ELSE IF value.t = "dict" /\ DictHas(value, Head(path))
         THEN Follow(DictGet(value, Head(path)), Tail(path))
         ELSE [found |-> FALSE, value |-> PyNone]

\* the pieces with every token whose path leads to a value replaced by the
\* value's string form; with noneIsNoValue, a path that leads to None counts
\* as leading to no value
RECURSIVE Substituted(_, _, _)
Substituted(ctx, ps, noneIsNoValue) ==
    IF ps = <<>> THEN ""
    ELSE LET p == Head(ps)
             r == Follow(ctx, p.path)
             out == IF p.kind = "lit" THEN p.s
                    ELSE IF r.found /\ ~(noneIsNoValue /\ r.value.t = "none")
                         THEN PyToStr(r.value)
                         ELSE TokenText(p)
         IN  out \o Substituted(ctx, Tail(ps), noneIsNoValue)

\* C7 as stated (token substitution): every token whose path leads to a value
\* is replaced by the value's string form, every other token is left as
\* written.
C7_TokensSubstituted ==
    (pc = "dispatch" /\ text.t = "str") =>
        resolved = PyStr(Substituted(context, pieces, FALSE))

\* C7 (token substitution): every token whose path leads to a value other
\* than None is replaced by the value's string form; a token whose path leads
\* to None, misses a segment or passes through a value that is no mapping is
\* left as written; the result is a string and nothing is raised.
C7_TokensSubstitutedUnlessNone ==
    (pc = "dispatch" /\ text.t = "str") =>
        resolved = PyStr(Substituted(context, pieces, TRUE))

\* {{inputs.nothing}}{{ inputs.x }} with inputs.nothing None and inputs.x "v"
C7_Witness ==
    /\ pc = "dispatch"
    /\ pieces = <<Token(<<"inputs", "nothing">>, ""), Token(<<"inputs", "x">>, " ")>>
    /\ Follow(context, <<"inputs", "nothing">>) = [found |-> TRUE, value |-> PyNone]
    /\ resolved = PyStr("{{inputs.nothing}}v")

\* C8 (non-strings pass through): a template that is no string is returned
\* as it is; set_variable stores that same value and an api_call parameter
\* reaches the integration manager as that same value.
C8_NonStringUnchanged ==
    text.t # "str" =>
        /\ pc \in {"dispatch", "walk"} => resolved = text
        /\ (pc = "walk" /\ current.type = "set_variable") =>
               DictGet(context, DictGet(current.parameters, "name").s) = text
        /\ (pc = "walk" /\ current.type = "api_call") =>
               /\ Len(gateway_calls) = 1
               /\ DictGet(gateway_calls[1].parameters, "limit") = text

\* a list holding a token of a bound variable was sent as a parameter
C8_Witness ==
    /\ pc = "walk"
    /\ text = PyList(<<PyStr("{{X}}")>>)
    /\ DictHas(context, "X")
    /\ current.type = "api_call"
    /\ Len(gateway_calls) = 1
    /\ DictHas(context, "vt")

\* C9 (unknown kind is fatal): an executed action whose kind is not one
\* _execute_action dispatches on is the last action executed, at any depth;
\* the run does not go on past it and ends FAILED with an error naming the
\* kind.
C9_UnknownKindFails ==
    \A i \in 1..Len(executed) :
        LET action == NodeOf(executed[i])
        IN  action.type \notin KnownTypes =>
                /\ i = Len(executed)
                /\ pc \in {"dispatch", "except", "done"}
                /\ Finished =>
                       /\ report.status = "FAILED"
                       /\ report.error = PyStr("Unknown action type: " \o action.type)

\* an action of kind email failed the run two conditions deep
C9_Witness ==
    /\ Failed
    /\ current.type = "email"
    /\ current.id = "a2t2t1"
    /\ report.error = PyStr("Unknown action type: email")

\* C10 (no manager): on an engine without integration manager an api_call
\* action is the last action executed; the run ends FAILED, no call reaches
\* an integration, and the reported context is the context the action was
\* entered with, without the action's output variable.
C10_NoGatewayAborts ==
    ~Truthy(integration_manager) =>
        /\ gateway_calls = <<>>
        /\ \A i \in 1..Len(executed) :
               NodeOf(executed[i]).type = "api_call" =>
                   /\ i = Len(executed)
                   /\ pc \in {"dispatch", "except", "done"}
                   /\ pc # "dispatch" => context = before.context
                   /\ Finished =>
                          /\ report.status = "FAILED"
                          /\ report.error = PyStr("Integration manager not configured")
                          /\ report.context = before.context

\* without a manager, an api_call failed the run after an earlier action had
\* bound a variable; its output variable vt is not bound
C10_Witness ==
    /\ ~Truthy(integration_manager)
    /\ Failed
    /\ current.type = "api_call"
    /\ Len(executed) > 1
    /\ DictHas(report.context, "X")
    /\ ~DictHas(report.context, "vt")

\* the integration an api_call names is not one the manager has registered
Unregistered(action) ==
    /\ action.type = "api_call"
    /\ Truthy(integration_manager)
    /\ ~DictHas(DictGet(integration_manager, "integrations"),
                DictGet(action.parameters, "integration").s)

\* a structured failure value: success is False and error is a text
IsFailureValue(v) ==
    /\ v.t = "dict"
    /\ DictHas(v, "success") /\ DictGet(v, "success") = PyBool(FALSE)
    /\ DictHas(v, "error") /\ DictGet(v, "error").t = "str"

\* C11: an api_call naming an integration the manager has not registered does
\* not fail the run: the manager returns a value with success False and an
\* error text and raises nothing, the value is stored under the output
\* variable the action declares, the run goes on with the following actions,
\* and no run is FAILED by such an action; a run of which no other action
\* fails ends SUCCESS with the action after the call executed.
C11_UnregisteredIsAResult ==
    /\ \A i \in 1..Len(gateway_calls) :
           LET call == gateway_calls[i]
           IN  (/\ call.result # NoResult
                /\ ~DictHas(DictGet(integration_manager, "integrations"),
                            call.integration.s))
               => call.result.ok /\ IsFailureValue(call.result.val)
    /\ (Unregistered(current) /\ pc \notin {"dispatch", "calling"})
       => /\ exc = NoExc
          /\ ~Failed
          /\ Truthy(current.output_variable)
               => DictGet(context, current.output_variable.s)
                    = gateway_calls[Len(gateway_calls)].result.val
    /\ (Finished /\ Truthy(integration_manager) /\ Ids(playbook.actions) = <<"a1">>
           /\ playbook.actions[1].condition = PyStr("(Y := 1) > 0"))
       => /\ report.status = "SUCCESS"
          /\ executed = <<"a1", "a1t1", "a1t2", "a1t3">>
          /\ IsFailureValue(DictGet(report.context, "sh"))

C11_Witness ==
    /\ Finished
    /\ report.status = "SUCCESS"
    /\ executed = <<"a1", "a1t1", "a1t2", "a1t3">>
    /\ NodeOf("a1t1").type = "api_call"
    /\ DictGet(report.context, "sh")
         = PyDict(<< <<"success", PyBool(FALSE)>>,
                     <<"error", PyStr("Integration 'shodan' not found or not enabled")>> >>)

\* the names a mapping binds
Keys(d) == {d.items[i][1] : i \in 1..Len(d.items)}

\* C12 (set_variable): after a set_variable of name n and template v the
\* context binds n to the resolution of v in the context as it was before the
\* action, whether or not n was bound; every other binding is as it was, no
\* other name is bound, and the action has appended, after its 'Executing'
\* entry, one INFO entry that tells the assignment.
C12_SetVariableBindsName ==
    (pc = "walk" /\ current.type = "set_variable") =>
        LET n == DictGet(current.parameters, "name").s
        IN  /\ DictHas(context, n)
            /\ DictGet(context, n) = resolved
            /\ text.t = "str" =>
                  DictGet(context, n) = PyStr(Substituted(before.context, pieces, TRUE))
            /\ Keys(context) = Keys(before.context) \cup {n}
            /\ \A k \in Keys(before.context) \ {n} :
                  DictGet(context, k) = DictGet(before.context, k)
            /\ execution_log =
                  before.execution_log
                     \o <<ExecutingEntry(current),
                          LogEntry("INFO", "Set variable '" \o n \o "' = "
                                           \o PyToStr(resolved))>>

\* X, bound to 1, was bound again to a text made of its own earlier value
C12_Witness ==
    /\ pc = "walk"
    /\ current = Rebind(PyStr("a{{X}}"))
    /\ DictHas(before.context, "X")
    /\ DictGet(before.context, "X") = PyInt(1)
    /\ DictGet(context, "X") = PyStr("a1")
    /\ DictGet(context, "inputs") = DictGet(before.context, "inputs")

\* C13 (log): a log action appends, after its 'Executing' entry, exactly one
\* entry, of level INFO, whose message is 'LOG: ' and the message template
\* resolved in the current context, and leaves the context as it was.
C13_LogWritesResolvedMessage ==
    (pc = "walk" /\ current.type = "log") =>
        /\ context = before.context
        /\ execution_log =
              before.execution_log
                 \o <<ExecutingEntry(current),
                      LogEntry("INFO", "LOG: " \o
                          (IF text.t = "str"
                           THEN Substituted(before.context, pieces, TRUE)
                           ELSE PyToStr(text)))>>

\* 'ip={{inputs.x}}' with inputs {x: 'v', ...} was logged as 'LOG: ip=v'
C13_Witness ==
    /\ pc = "walk"
    /\ current = Say(PyStr("ip={{inputs.x}}"))
    /\ DictHas(DictGet(context, "inputs"), "x")
    /\ DictGet(DictGet(context, "inputs"), "x") = PyStr("v")
    /\ execution_log[Len(execution_log)] = LogEntry("INFO", "LOG: ip=v")

\* C14 (what changes the context): the bindings of the context change only
\* through set_variable and the output captures of python_code and api_call;
\* when the handler of a log action, of a condition (the evaluation of its
\* expression), or of a python_code or api_call without output variable has
\* returned or raised, every binding of the context is as it was when the
\* action was begun.
C14_OnlyAssignmentsChangeContext ==
    (/\ pc \in {"walk", "except"}
     /\ \/ current.type \in {"log", "condition"}
        \/ /\ current.type \in {"python_code", "api_call"}
           /\ ~Truthy(current.output_variable))
    => context = before.context

\* C15 (python_code output): the body `result = X + 1` with output variable o
\* sees the variables of the context: where the context binds X to a number
\* the body raises nothing, the context then binds o to that number plus one,
\* every other binding is as it was, and the action has appended, after its
\* 'Executing' entry, one INFO entry for the assignment; where the context
\* does not bind X the body raises NameError.
C15_ResultStoredUnderOutput ==
    (/\ pc \in {"walk", "except"}
     /\ current.type = "python_code"
     /\ Truthy(current.output_variable))
    => LET o == current.output_variable.s
       IN  IF DictHas(before.context, "X") /\ IsNumber(DictGet(before.context, "X"))
           THEN /\ pc = "walk"
                /\ DictHas(context, o)
                /\ DictGet(context, o) = PyInt(Num(DictGet(before.context, "X")) + 1)
                /\ Keys(context) = Keys(before.context) \cup {o}
                /\ \A k \in Keys(before.context) \ {o} :
                      DictGet(context, k) = DictGet(before.context, k)
                /\ execution_log =
                      before.execution_log
                         \o <<ExecutingEntry(current),
                              LogEntry("INFO", "Stored result in variable: " \o o)>>
           ELSE /\ pc = "except"
                /\ exc.cls = "NameError"
                /\ context = before.context

\* X was 1 when the body of a2f1 ran, and is 2 after it
C15_Witness ==
    /\ pc = "walk"
    /\ current.id = "a2f1"
    /\ current.type = "python_code"
    /\ current.output_variable = PyStr("X")
    /\ DictHas(before.context, "X")
    /\ DictGet(before.context, "X") = PyInt(1)
    /\ DictGet(context, "X") = PyInt(2)

\* C16 (api_call, step by step): with a manager configured, an api_call has,
\* when the manager is invoked, resolved every parameter in the context and
\* logged the resolved call, and has stored and logged nothing else; the
\* manager is invoked once, with the integration name, the method name and the
\* resolved parameters; once the manager has returned, the result is stored
\* under the output variable and that assignment logged, or, without an output
\* variable, the context is as it was before the action.
C16_ResolveLogCallStore ==
    (/\ current.type = "api_call"
     /\ Truthy(integration_manager)
     /\ pc \in {"calling", "walk", "except"})
    => LET o == current.output_variable
           parameters == resolve_params(before.context,
                             DictGet(current.parameters, "parameters"))
           call == gateway_calls[Len(gateway_calls)]
           upto == before.execution_log
                      \o <<ExecutingEntry(current),
                           LogEntry("INFO", "Calling "
                               \o DictGet(current.parameters, "integration").s \o "."
                               \o DictGet(current.parameters, "method").s
                               \o " with params: " \o PyToStr(parameters))>>
       IN  /\ Len(gateway_calls) = Len(before.gateway_calls) + 1
           /\ before.gateway_calls = SubSeq(gateway_calls, 1, Len(before.gateway_calls))
           /\ call.integration = DictGet(current.parameters, "integration")
           /\ call.method = DictGet(current.parameters, "method")
           /\ call.parameters = parameters
           /\ pc = "calling" =>
                 /\ call.result = NoResult
                 /\ context = before.context
                 /\ execution_log = upto
           /\ pc = "except" =>
                 /\ ~call.result.ok /\ call.result # NoResult
                 /\ context = before.context
                 /\ execution_log = upto
           /\ pc = "walk" =>
                 /\ call.result.ok
                 /\ IF Truthy(o)
                    THEN /\ context = DictSet(before.context, o.s, call.result.val)
                         /\ execution_log =
                               Append(upto, LogEntry("INFO",
                                   "Stored API result in variable: " \o o.s))
                    ELSE /\ context = before.context
                         /\ execution_log = upto

\* the second call of a run, without output variable, has returned: the
\* token of its parameter was resolved, the context holds the result of the
\* first call only
C16_Witness ==
    /\ pc = "walk"
    /\ current.id = "a1t2"
    /\ current.type = "api_call"
    /\ ~Truthy(current.output_variable)
    /\ Len(gateway_calls) = 2
    /\ gateway_calls[2].parameters = PyDict(<< <<"ip", PyStr("8.8.8.8")>> >>)
    /\ gateway_calls[2].result.ok
    /\ Keys(context) = {"inputs", "Y", "sh"}

\* what an action that ends without raising does to a context, told without
\* the engine: set_variable binds its name, python_code and api_call bind
\* their output variable (answer being what the manager returned), a condition
\* binds what its expression assigns; an action that raises binds nothing
Effect(action, ctx, answer) ==
    CASE action.type = "set_variable" ->
             DictSet(ctx, DictGet(action.parameters, "name").s,
                     resolve_variables(ctx, DictGet(action.parameters, "value")))
      [] action.type = "python_code" ->
             LET r == PyExec(DictGet(action.parameters, "code"), ctx)
             IN  IF r.ok /\ Truthy(action.output_variable) /\ DictHas(r.val, "result")
                 THEN DictSet(ctx, action.output_variable.s, DictGet(r.val, "result"))
                 ELSE ctx
      [] action.type = "api_call" ->
             IF answer.ok /\ Truthy(action.output_variable)
             THEN DictSet(ctx, action.output_variable.s, answer.val)
             ELSE ctx
      [] action.type = "condition" ->
             EvalLocals(resolve_variables(ctx, action.condition), ctx)
      [] OTHER -> ctx

\* the contexts of a run, told without the engine: the context the run starts
\* from, then the context after each of the actions in the order given, each
\* action acting on the context the action before it left; j counts the calls
\* the manager got
RECURSIVE Contexts(_, _, _)
Contexts(actions, ctx, j) ==
    IF actions = <<>> THEN <<ctx>>
    ELSE LET action == Head(actions)
             called == action.type = "api_call" /\ j <= Len(gateway_calls)
             answer == IF called THEN gateway_calls[j].result ELSE NoResult
         IN  <<ctx>> \o Contexts(Tail(actions), Effect(action, ctx, answer),
                                 IF called THEN j + 1 ELSE j)

\* C17 (one context for the run): every action acts on the context that the
\* actions executed before it in the run, children of conditions included,
\* have left: the context of the run is at any time the one got by applying
\* the executed actions one after the other to {inputs}; the value a
\* condition was evaluated to is the value of its resolved expression in that
\* context, and a condition raises only where its expression raises in that
\* context.
C17_OneContextPerRun ==
    pc # "idle" =>
        LET nodes == Nodes
            actions == [i \in 1..Len(executed) |->
                          nodes[CHOOSE k \in 1..Len(nodes) : nodes[k].id = executed[i]]]
            ctxs == Contexts(actions, PyDict(<<context.items[1]>>), 1)
            value(i) == PyEval(resolve_variables(ctxs[i], actions[i].condition), ctxs[i])
        IN  /\ context = IF pc = "dispatch" THEN ctxs[Len(executed)]
                                            ELSE ctxs[Len(executed) + 1]
            /\ \A e \in 1..Len(evaluated) :
                  \E i \in 1..Len(executed) :
                      /\ executed[i] = evaluated[e][1]
                      /\ value(i) = Ok(evaluated[e][2])
            /\ (pc = "except" /\ current.type = "condition")
                  => ~value(Len(executed)).ok

\* X bound to 1 at the root, bound to 2 by a child of the second action's
\* if_false, seen as 2 by the third action's condition, bound to 3 by a child
\* of its if_true and seen as 3 by the condition nested there
C17_Witness ==
    /\ Finished
    /\ report.status = "SUCCESS"
    /\ executed = <<"a1", "a2", "a2f1", "a2f2", "a3", "a3t1", "a3t2", "a3t3">>
    /\ evaluated = << <<"a2", PyBool(FALSE)>>, <<"a3", PyBool(TRUE)>>,
                      <<"a3t2", PyBool(FALSE)>> >>
    /\ NodeOf("a3").condition = PyStr("X > 0") /\ NodeOf("a3t2").condition = PyStr("X == 2")
    /\ DictGet(report.context, "X") = PyInt(3)

\* the log and context objects a returned report holds, as they are now
Deref(ref) ==
    IF ref <= Len(retired) THEN [context |-> retired[ref].context,
                                 execution_log |-> retired[ref].execution_log]
    ELSE [context |-> context, execution_log |-> execution_log]

\* C18 (a fresh context and log per call): when execute has begun, whatever
\* the instance ran before, the context binds inputs, to the inputs of this
\* call, and nothing else, and the log holds the 'Starting playbook' entry and
\* nothing else; so a condition on X alone in a playbook fails for want of X
\* also after a run that bound X; and the log and the context every report
\* returned so far holds are as they were when it was returned.
C18_FreshContextAndLog ==
    /\ (pc = "walk" /\ executed = <<>>) =>
           /\ context = PyDict(<< <<"inputs",
                             LET inputs == retired[Len(retired)].inputs
                             IN  IF inputs = PyNone THEN PyDict(<<>>) ELSE inputs>> >>)
           /\ execution_log = <<LogEntry("INFO", "Starting playbook: " \o playbook.name)>>
    /\ (Finished /\ Ids(playbook.actions) = <<"a1">>
           /\ playbook.actions[1].condition = PyStr("X < 1"))
       => /\ report.status = "FAILED"
          /\ report.error = PyStr("name 'X' is not defined")
          /\ Len(report.execution_log) = 3
    /\ \A i \in 1..Len(returned) :
           /\ Deref(returned[i].ref).context = returned[i].report.context
           /\ Deref(returned[i].ref).execution_log = returned[i].report.execution_log

\* a run bound X and wrote six entries; the next run on the instance, of a
\* condition on X alone, failed for want of X, and the first report is as it
\* was
C18_Witness ==
    /\ Len(returned) = 2
    /\ Finished
    /\ DictHas(returned[1].report.context, "X")
    /\ Len(returned[1].report.execution_log) > 5
    /\ Deref(returned[1].ref).context = returned[1].report.context
    /\ returned[2].report.status = "FAILED"
    /\ returned[2].report.error = PyStr("name 'X' is not defined")
    /\ ~DictHas(context, "X")

\* the inputs execute was called with for a returned report
InputsOf(r) == retired[r.ref - 1].inputs

\* the manager answered alike whenever it was called alike in the two runs
SameAnswers(r1, r2) ==
    LET calls == r1.gateway_calls \o r2.gateway_calls
    IN  \A a, b \in 1..Len(calls) :
           (/\ calls[a].integration = calls[b].integration
            /\ calls[a].method = calls[b].method
            /\ calls[a].parameters = calls[b].parameters)
           => calls[a].result = calls[b].result

\* C19 (sequential determinism): two runs on one instance, one after the
\* other, of the same playbook with the same inputs, in which the manager
\* answered alike whenever it was called alike, return the same status, the
\* same error, the same log entries in the same order and the same context.
C19_SequentialDeterminism ==
    \A i, j \in 1..Len(returned) :
        (/\ i < j
         /\ returned[i].playbook = returned[j].playbook
         /\ InputsOf(returned[i]) = InputsOf(returned[j])
         /\ SameAnswers(returned[i], returned[j]))
        => returned[i].report = returned[j].report

\* two runs of a playbook that calls the manager, with the same inputs, one
\* after the other, both with a stored answer
C19_Witness ==
    /\ Len(returned) = 2
    /\ returned[1].playbook = returned[2].playbook
    /\ InputsOf(returned[1]) = InputsOf(returned[2])
    /\ InputsOf(returned[1]) # PyNone
    /\ Len(returned[1].gateway_calls) = 1 /\ Len(returned[2].gateway_calls) = 1
    /\ returned[1].gateway_calls = returned[2].gateway_calls
    /\ returned[1].report.status = "SUCCESS"
    /\ DictHas(returned[2].report.context, "vt")
    /\ returned[1].report = returned[2].report

\* an action as a document must give it: with an id, with a type, and, for a
\* condition, with a condition
WellFormed(action) ==
    /\ action.id # ""
    /\ action.type # ""
    /\ action.type = "condition" => action.condition # PyNone

\* C20 (malformed documents are refused): a document with an action that has
\* no type, no id, or, being a condition, no condition field, is refused when
\* it is loaded: no playbook that load_playbook returns, and so no playbook
\* execute is given, has such an action anywhere in its tree.
C20_MalformedNeverLoaded ==
    pc # "idle" =>
        LET nodes == Nodes
        IN  \A i \in 1..Len(nodes) : WellFormed(nodes[i])

\* C21 (termination, no repetition): a run that has begun ends with a report
\* of status SUCCESS or FAILED; execute returns one report when it ends a run
\* and none otherwise; and no action of the tree is executed more than once in
\* a run.
C21_EndsWithOneReport ==
    /\ (pc = "walk") ~> (Finished /\ report.status \in {"SUCCESS", "FAILED"})
    /\ [][Len(returned') =
             Len(returned) + (IF pc # "done" /\ pc' = "done" THEN 1 ELSE 0)]_vars
    /\ [](\A i, j \in 1..Len(executed) : executed[i] = executed[j] => i = j)

\* C25 (shape of the log): the log of a report starts with the INFO entry
\* 'Starting playbook: <name>'; it holds an ERROR entry exactly when the status
\* is FAILED, and then one only, the last entry, whose message carries the
\* report's error text; the log of a SUCCESS report holds INFO entries only.
C25_LogShape ==
    Finished =>
        LET entries == report.execution_log
            n == Len(entries)
            errors == {i \in 1..n : entries[i].level = "ERROR"}
        IN  /\ n >= 1
            /\ entries[1] = LogEntry("INFO", "Starting playbook: " \o playbook.name)
            /\ errors # {} <=> report.status = "FAILED"
            /\ report.status = "FAILED" =>
                   /\ errors = {n}
                   /\ report.error.t = "str"
                   /\ entries[n].message =
                          "Playbook execution failed: " \o report.error.s
            /\ report.status = "SUCCESS" =>
                   \A i \in 1..n : entries[i].level = "INFO"

\* a run that logged the execution of two actions and then failed
C25_Witness ==
    /\ Failed
    /\ Len(executed) >= 2
    /\ Len(report.execution_log) >= 4

\* C26 (a variable bound to None): a token whose path exists in the context
\* and is bound to None stays in the output as it was written, blanks
\* included, between what the text before it and the text after it resolve to.
C26_NoneTokenVerbatim ==
    (pc = "dispatch" /\ text.t = "str") =>
        \A k \in 1..Len(pieces) :
            (/\ pieces[k].kind = "tok"
             /\ Follow(context, pieces[k].path) = [found |-> TRUE, value |-> PyNone]) =>
                resolved =
                    PyStr(ReSub(context, Render(SubSeq(pieces, 1, k - 1)))
                          \o TokenText(pieces[k])
                          \o ReSub(context, Render(SubSeq(pieces, k + 1, Len(pieces)))))

\* ip={{ inputs.nothing }} with inputs.nothing bound to None
C26_Witness ==
    /\ pc = "dispatch"
    /\ pieces = <<Literal("ip="), Token(<<"inputs", "nothing">>, " ")>>
    /\ DictHas(context, "inputs")
    /\ DictHas(DictGet(context, "inputs"), "nothing")
    /\ DictGet(DictGet(context, "inputs"), "nothing") = PyNone
    /\ resolved = PyStr("ip={{ inputs.nothing }}")

\* the body of the python_code action a assigns the name
Binds(a, name) ==
    LET code == DictGetOr(a.parameters, "code", PyStr(""))
    IN  \E i \in 1..Len(code.code) :
           code.code[i].op = "assign" /\ code.code[i].name = name

\* C27 as stated (no result, nothing stored): a python_code action with an
\* output variable whose body does not bind result leaves the context as it
\* was when the action was begun, whatever the context holds.
C27_NoResultStoresNothing ==
    (/\ pc \in {"walk", "except"}
     /\ current.type = "python_code"
     /\ Truthy(current.output_variable)
     /\ ~Binds(current, "result"))
    => context = before.context

\* C27 (no result in the body): a python_code action with an output variable
\* whose body does not bind result leaves the context as it was when the
\* context holds no variable named result or the body raises; when the context
\* holds a variable named result and the body completes, the value of that
\* variable is stored under the output variable and nothing else changes.
C27_StoresContextResult ==
    (/\ pc \in {"walk", "except"}
     /\ current.type = "python_code"
     /\ Truthy(current.output_variable)
     /\ ~Binds(current, "result"))
    => IF pc = "walk" /\ DictHas(before.context, "result")
       THEN context = DictSet(before.context, current.output_variable.s,
                              DictGet(before.context, "result"))
       ELSE context = before.context

\* result was 9 when the body `y = 1` of a2 ran; out is 9 after it
C27_Witness ==
    /\ pc = "walk"
    /\ current.id = "a2"
    /\ current.type = "python_code"
    /\ ~Binds(current, "result")
    /\ DictHas(before.context, "result")
    /\ ~DictHas(before.context, "out")
    /\ DictHas(context, "out")
    /\ DictGet(context, "out") = PyInt(9)
    /\ ~DictHas(context, "y")

-----------------------------------------------------------------------------
(* Properties of Case and CaseManager *)

\* the sequence a is the sequence b with n elements appended
Extends(a, b, n) == Len(a) = Len(b) + n /\ SubSeq(a, 1, Len(b)) = b

\* C22 (append-only timeline and artifacts): add_event, add_comment,
\* update_status and execute_playbook leave a case with the events it had, in
\* their order and unaltered, followed by one new event, and with the artifacts
\* it had; add_artifact leaves it with the events it had followed by one new
\* event and the artifacts it had followed by one new artifact; a case
\* constructed without events holds one event, of type created.
C22_AppendOnly ==
    /\ last.op \in {"add_event", "add_comment", "update_status", "execute_playbook"} =>
           /\ Extends(held[last.idx].events, last.before.events, 1)
           /\ held[last.idx].artifacts = last.before.artifacts
    /\ last.op = "add_artifact" =>
           /\ Extends(held[last.idx].events, last.before.events, 1)
           /\ Extends(held[last.idx].artifacts, last.before.artifacts, 1)
    /\ last.op = "create_case" =>
           /\ Len(held[last.idx].events) = 1
           /\ held[last.idx].events[1].event_type = "created"
           /\ held[last.idx].artifacts = <<>>

\* an artifact was added to a case that held three events
C22_Witness ==
    /\ last.op = "add_artifact"
    /\ Len(last.before.events) = 3
    /\ Len(held[last.idx].events) = 4
    /\ Len(held[last.idx].artifacts) = 1

\* the rows of the table that hold the id
RowsOf(rows, case_id) == SelectSeq(rows, LAMBDA r : r[1] = case_id)

\* C23 (list_cases): list_cases returns cases and raises nothing; the cases it
\* returns are stored cases, each once, that match the status and severity
\* given, and they are all the matching cases or limit of them.
C23_ListReturnsMatching ==
    last.op = "list_cases" =>
        LET q == last.query
            matching == SelectSeq(db, LAMBDA r :
                            /\ q.status # <<>> => r[5] = q.status[1]
                            /\ q.severity # <<>> => r[4] = q.severity[1])
            n == Len(last.value)
        IN  /\ last.raised = NoExc
            /\ n = (IF q.limit < Len(matching) THEN q.limit ELSE Len(matching))
            /\ \A i \in 1..n : RowsOf(matching, last.value[i].id) # <<>>
            /\ \A i, j \in 1..n : last.value[i].id = last.value[j].id => i = j

\* the fields of a case that the store is to give back
Stored(case) ==
    <<case.id, case.title, case.description, case.severity, case.status, case.tags,
      case.artifacts, case.events, case.playbooks_executed>>

C28_ClosedAtIffClosed ==
    \A i \in 1..Len(held) : held[i].closed_at # <<>> <=> held[i].status = "closed"

=============================================================================
